---- MODULE Spec2Model ----
(***************************************************************************)
(* Kiosk: the route handlers of the publishing application as a state      *)
(* machine over the relational store (journals, journal members, articles, *)
(* images), the object storage (UploadThing) and the requests in flight.   *)
(*                                                                         *)
(* Every handler is cut at its awaited database / storage calls: one       *)
(* action per awaited statement, so that two requests interleave exactly   *)
(* where the code lets them.  The part of a handler that runs before its   *)
(* first statement (session check, body validation) belongs to the action  *)
(* of that first statement.  A rejected await (database or storage error)  *)
(* lands in the handler's catch block: action Throw.                       *)
(*                                                                         *)
(* The handlers take the sets their inputs are drawn from as a parameter,  *)
(* so that each specification below enumerates the requests its claims     *)
(* are about.                                                              *)
(***************************************************************************)
EXTENDS Integers, Sequences, FiniteSets, TLC

VARIABLES journals, members, articles, images, purchases, storage, used, now, nextId,
          reqs, resp, ui

vars == <<journals, members, articles, images, purchases, storage, used, now, nextId,
          reqs, resp, ui>>

----------------------------------------------------------------------------
(* Bounds of the model *)

MaxJournals == 2
MaxMembers == 3
MaxArticles == 2
MaxImages == 3
MaxTime == 2

(* The retention window of the sweep, 24 hours, in ticks of the clock *)
RetentionWindow == 1

Procs == {"c1", "c2", "cron"}
Users == {"u1", "u2"}
NoUser == "none"

Null == 0                      \* a NULL column / a missing id in a body
NoUrl == ""                    \* a missing or empty string
Urls == {"x", "y"}
Keys == {"k1", "k2", "k3"}
NoPrice == -100                \* price: null
Fractional == -50              \* price: a number that is not an integer, such as 2.5

----------------------------------------------------------------------------
(* Content trees (TipTap JSON).  A node is [type, src, content]; src = ""  *)
(* stands for a node without attrs or without attrs.src.                   *)

Leaf(t, s) == [type |-> t, src |-> s, content |-> <<>>]
Box(t, kids) == [type |-> t, src |-> NoUrl, content |-> kids]

NoContent == [type |-> "missing", src |-> NoUrl, content |-> <<>>]
DocText == Box("doc", <<Box("paragraph", <<Leaf("text", NoUrl)>>)>>)
DocX == Box("doc", <<Box("paragraph", <<Leaf("text", NoUrl), Leaf("image", "x")>>),
                     Leaf("image", NoUrl), Leaf("video", "y")>>)

RECURSIVE Traverse(_)
RECURSIVE TraverseAll(_)
(* traverse(n): the urls pushed while visiting n, in visiting order *)
Traverse(n) ==
    (IF n.type = "image" /\ n.src # NoUrl THEN <<n.src>> ELSE <<>>)
        \o TraverseAll(n.content)
TraverseAll(kids) ==
    IF kids = <<>> THEN <<>> ELSE Traverse(Head(kids)) \o TraverseAll(Tail(kids))

RECURSIVE TraverseAnyType(_)
RECURSIVE TraverseAnyTypeAll(_)
TraverseAnyType(n) ==
    (IF n.src # NoUrl THEN <<n.src>> ELSE <<>>) \o TraverseAnyTypeAll(n.content)
TraverseAnyTypeAll(kids) ==
    IF kids = <<>> THEN <<>>
    ELSE TraverseAnyType(Head(kids)) \o TraverseAnyTypeAll(Tail(kids))

extractUrlsOfAnyNode(node) == TraverseAnyType(node)

extractImageUrls(node) == Traverse(node)

(* The url list of the link step: content urls, then the thumbnail *)
ImageUrls(content, thumbnailUrl) ==
    extractImageUrls(content) \o (IF thumbnailUrl # NoUrl THEN <<thumbnailUrl>> ELSE <<>>)

Range(s) == {s[i] : i \in DOMAIN s}

----------------------------------------------------------------------------
(* Requests in flight.  A slot holds the running request of one            *)
(* connection: op, pc (its next awaited statement) and the handler's local *)
(* variables; wrote is TRUE once a statement of the request has changed    *)
(* the store.  resp is the response sent last: op, status and JSON body.   *)

Idle == [op |-> "none", pc |-> "done", wrote |-> FALSE, loc |-> <<>>]
At(o, step, w, l) == [op |-> o, pc |-> step, wrote |-> w, loc |-> l]
Response(o, st, b) == [op |-> o, status |-> st, body |-> b]

Goto(p, r) == reqs' = [reqs EXCEPT ![p] = r]
Reply(p, o, st, b) ==
    /\ reqs' = [reqs EXCEPT ![p] = Idle]
    /\ resp' = Response(o, st, b)
(* A connection is free for a handler to begin on when it holds no request *)
(* or a request its client has sent and the handler has not yet taken up: *)
(* pc = "sent", op the operation, loc the request (session and body), each *)
(* field as the one-element set the handler draws it from.                 *)
Free(p) == reqs[p].pc \in {"done", "sent"}
Sent(p, o) == reqs[p].pc = "sent" /\ reqs[p].op = o

(* The state of the client components: the user search box and the        *)
(* publish modal of the write page with the page's own flags               *)
SearchUsersInit ==
    [searchFor |-> NoUrl, users |-> <<>>, timeout |-> FALSE, elapsed |-> 0,
     effect |-> 0, fetches |-> {}]
PublishModalInit ==
    [showPublishModal |-> FALSE, isPublishing |-> FALSE, isUploading |-> FALSE,
     thumbnailUrl |-> NoUrl, thumbnailKey |-> NoUrl, awaiting |-> "none",
     uploadedFile |-> [url |-> NoUrl, key |-> NoUrl]]

Init ==
    /\ journals = {}
    /\ members = {}
    /\ articles = {}
    /\ images = {}
    /\ purchases = {}
    /\ storage = {}
    /\ used = {}
    /\ now = 0
    /\ nextId = [journal |-> 1, member |-> 1, article |-> 1, image |-> 1]
    /\ reqs = [p \in Procs |-> Idle]
    /\ resp = Response("none", 0, <<>>)
    /\ ui = [search |-> SearchUsersInit, modal |-> PublishModalInit]

----------------------------------------------------------------------------
(* Environment: the clock and the uploads to the object storage *)

Tick ==
    /\ now < MaxTime
    /\ now' = now + 1
    /\ UNCHANGED <<ui, journals, members, articles, images, storage, used, nextId,
                   reqs, resp, purchases>>

(* UploadThing stores a file under a key it has not used before; used is  *)
(* the set of keys it has handed out, storage the files it still holds.    *)
Upload(keys) ==
    /\ \E k \in keys \ used :
         /\ storage' = storage \cup {k}
         /\ used' = used \cup {k}
    /\ UNCHANGED <<ui, journals, members, articles, images, now, nextId,
                   reqs, resp, purchases>>

----------------------------------------------------------------------------
(* POST /api/images: recordUpload *)

(* A client sends POST /api/images with its session, a url and a key *)
RecordCall(p, in) ==
    /\ reqs[p].pc = "done"
    /\ \E u \in in.sessions, url \in in.urls, key \in in.keys :
         Goto(p, At("recordImage", "sent", FALSE,
                    [sessions |-> {u}, urls |-> {url}, keys |-> {key}]))
    /\ UNCHANGED <<ui, journals, members, articles, images, purchases, storage, used, now,
                   nextId, resp>>

RecordImageAnySession(p, in) ==
    /\ Free(p)
    /\ nextId.image <= MaxImages
    /\ \E u \in in.sessions, url \in in.urls, key \in in.keys :
         IF url = NoUrl \/ key = NoUrl THEN
            /\ Reply(p, "recordImage", 400, <<>>)
            /\ UNCHANGED <<images, nextId>>
         ELSE IF \E i \in images : i.key = key THEN
            /\ Reply(p, "recordImage", 500, <<>>)
            /\ UNCHANGED <<images, nextId>>
         ELSE
            /\ images' = images \cup
                 {[id |-> nextId.image, url |-> url, key |-> key, userId |-> u,
                   articleId |-> Null, createdAt |-> now]}
            /\ nextId' = [nextId EXCEPT !.image = @ + 1]
            /\ Reply(p, "recordImage", 200, <<>>)
    /\ UNCHANGED <<ui, journals, members, articles, storage, used, now, purchases>>

RecordImage(p, in) ==
    /\ Free(p)
    /\ nextId.image <= MaxImages
    /\ \E u \in in.sessions, url \in in.urls, key \in in.keys :
         IF u = NoUser THEN
            /\ Reply(p, "recordImage", 401, <<>>)
            /\ UNCHANGED <<images, nextId>>
         ELSE IF url = NoUrl \/ key = NoUrl THEN
            /\ Reply(p, "recordImage", 400, <<>>)
            /\ UNCHANGED <<images, nextId>>
         ELSE IF \E i \in images : i.key = key THEN
            \* unique index image_key_key: create throws, caught
            /\ Reply(p, "recordImage", 500, <<>>)
            /\ UNCHANGED <<images, nextId>>
         ELSE
            /\ images' = images \cup
                 {[id |-> nextId.image, url |-> url, key |-> key, userId |-> u,
                   articleId |-> Null, createdAt |-> now]}
            /\ nextId' = [nextId EXCEPT !.image = @ + 1]
            /\ Reply(p, "recordImage", 200, <<>>)
    /\ UNCHANGED <<ui, journals, members, articles, storage, used, now, purchases>>

----------------------------------------------------------------------------
(* DELETE /api/images: deleteOwned *)

(* A client sends DELETE /api/images with its session and a key *)
DeleteCall(p, in) ==
    /\ reqs[p].pc = "done"
    /\ \E u \in in.sessions, key \in in.keys :
         Goto(p, At("deleteImage", "sent", FALSE, [sessions |-> {u}, keys |-> {key}]))
    /\ UNCHANGED <<ui, journals, members, articles, images, purchases, storage, used, now,
                   nextId, resp>>

DeleteImageFindAnyOwner(p, in) ==
    /\ Free(p)
    /\ \E u \in in.sessions, key \in in.keys :
         IF u = NoUser THEN Reply(p, "deleteImage", 401, <<>>)
         ELSE IF key = NoUrl THEN Reply(p, "deleteImage", 400, <<>>)
         ELSE IF ~ \E i \in images : i.key = key THEN Reply(p, "deleteImage", 404, <<>>)
         ELSE /\ Goto(p, At("deleteImage", "del_storage", FALSE, [key |-> key]))
              /\ UNCHANGED resp
    /\ UNCHANGED <<ui, journals, members, articles, images, storage, used,
                   now, nextId, purchases>>

DeleteImageFind(p, in) ==
    /\ Free(p)
    /\ \E u \in in.sessions, key \in in.keys :
         IF u = NoUser THEN Reply(p, "deleteImage", 401, <<>>)
         ELSE IF key = NoUrl THEN Reply(p, "deleteImage", 400, <<>>)
         ELSE IF ~ \E i \in images : i.key = key THEN Reply(p, "deleteImage", 404, <<>>)
         ELSE IF (CHOOSE i \in images : i.key = key).userId # u
              THEN Reply(p, "deleteImage", 403, <<>>)
         ELSE /\ Goto(p, At("deleteImage", "del_storage", FALSE, [key |-> key]))
              /\ UNCHANGED resp
    /\ UNCHANGED <<ui, journals, members, articles, images, storage, used,
                   now, nextId, purchases>>

(* await utapi.deleteFiles(key): the result is not looked at.  The storage *)
(* either removes the file (ok) or answers success: false and keeps it.    *)
DeleteImageStorage(p) ==
    /\ reqs[p].pc = "del_storage"
    /\ \E ok \in BOOLEAN :
         /\ storage' = IF ok THEN storage \ {reqs[p].loc.key} ELSE storage
         /\ Goto(p, At("deleteImage", "del_db", storage' # storage, reqs[p].loc))
    /\ UNCHANGED <<ui, journals, members, articles, images, used, now,
                   nextId, resp, purchases>>

DeleteImageDb(p) ==
    /\ reqs[p].pc = "del_db"
    /\ IF \E i \in images : i.key = reqs[p].loc.key THEN
          /\ images' = {i \in images : i.key # reqs[p].loc.key}
          /\ Reply(p, "deleteImage", 200, <<>>)
       ELSE
          \* record to delete does not exist: delete throws, caught
          /\ images' = images
          /\ Reply(p, "deleteImage", 500, <<>>)
    /\ UNCHANGED <<ui, journals, members, articles, storage, used, now, nextId, purchases>>

----------------------------------------------------------------------------
(* GET /api/cron/cleanup-images: sweepOrphans *)

CronSecret == "s"
NodeEnv == "production"

(* process.env.CRON_SECRET when the variable is not set *)
Unset == "<unset>"

(* !x of a string or undefined, and `${x}` *)
Falsy(x) == x = Unset \/ x = NoUrl
Template(x) == IF x = Unset THEN "undefined" ELSE x

verifyCronSecret(authHeader, cronSecret, nodeEnv) ==
    IF Falsy(cronSecret) /\ nodeEnv = "development" THEN TRUE
    ELSE authHeader = "Bearer " \o Template(cronSecret)

(* A caller, the scheduler or anyone else, sends GET to the cleanup route  *)
(* of a deployment with its CRON_SECRET and NODE_ENV                       *)
CronCall(p, in) ==
    /\ reqs[p].pc = "done"
    /\ \E h \in in.headers, secret \in in.secrets, env \in in.envs :
         Goto(p, At("sweep", "sent", FALSE,
                    [headers |-> {h}, secrets |-> {secret}, envs |-> {env}]))
    /\ UNCHANGED <<ui, journals, members, articles, images, purchases, storage, used, now,
                   nextId, resp>>

(* where: { articleId: null, createdAt: { lt: now - 24h } } *)
OrphanImagesInclusive(t) ==
    {i \in images : i.articleId = Null /\ i.createdAt <= t - RetentionWindow}
OrphanImages(t) ==
    {i \in images : i.articleId = Null /\ i.createdAt < t - RetentionWindow}

KeysOf(batch) == {b.key : b \in batch}

(* The branch taken on the result of utapi.deleteFiles(keys): TRUE when    *)
(* the handler goes on to delete database records.                         *)
SweepProceedsOnPartial(success, deletedCount) == success \/ deletedCount > 0
SweepProceeds(success, deletedCount) == success

SweepBody(msg, deleted, attempted) ==
    [message |-> msg, deleted |-> deleted, attempted |-> attempted]

SweepFind(p, in) ==
    /\ Free(p)
    /\ \E h \in in.headers, secret \in in.secrets, env \in in.envs :
         IF ~ verifyCronSecret(h, secret, env) THEN Reply(p, "sweep", 401, <<>>)
         ELSE LET orphanImages == {[id |-> i.id, key |-> i.key] : i \in OrphanImages(now)}
              IN  IF orphanImages = {}
                  THEN Reply(p, "sweep", 200, SweepBody("nothing", 0, 0))
                  ELSE /\ Goto(p, At("sweep", "sw_storage", FALSE, [batch |-> orphanImages]))
                       /\ UNCHANGED resp
    /\ UNCHANGED <<ui, journals, members, articles, images, storage, used,
                   now, nextId, purchases>>

(* await utapi.deleteFiles(keys): the storage removes some subset of the   *)
(* files and reports success iff it removed them all.                      *)
SweepStorage(p) ==
    /\ reqs[p].pc = "sw_storage"
    /\ LET keys == KeysOf(reqs[p].loc.batch) IN
       \E gone \in SUBSET keys :
         LET success == (gone = keys)
             deletedCount == Cardinality(gone)
         IN  /\ storage' = storage \ gone
             /\ IF SweepProceeds(success, deletedCount)
                THEN /\ Goto(p, At("sweep", "sw_db", storage' # storage,
                                [batch |-> reqs[p].loc.batch,
                                 deleteResult |-> [success |-> success,
                                                   deletedCount |-> deletedCount]]))
                     /\ UNCHANGED resp
                ELSE IF deletedCount > 0
                THEN Reply(p, "sweep", 200, SweepBody("partial", 0, Cardinality(keys)))
                ELSE Reply(p, "sweep", 200, SweepBody("failed", 0, Cardinality(keys)))
    /\ UNCHANGED <<ui, journals, members, articles, images, used, now, nextId, purchases>>

(* deleteMany({ where: { id: { in: idsToDelete } } }) *)
SweepDelete(batch) ==
    LET successfullyDeletedKeys == KeysOf(batch)
        idsToDelete == {b.id : b \in {c \in batch : c.key \in successfullyDeletedKeys}}
    IN  {i \in images : i.id \in idsToDelete}

SweepDb(p) ==
    /\ reqs[p].pc = "sw_db"
    /\ LET hit == SweepDelete(reqs[p].loc.batch) IN
         /\ images' = images \ hit
         /\ Reply(p, "sweep", 200,
                  SweepBody("complete", Cardinality(hit), Cardinality(reqs[p].loc.batch)))
    /\ UNCHANGED <<ui, journals, members, articles, storage, used, now, nextId, purchases>>

----------------------------------------------------------------------------
(* POST /api/articles: publish *)

(* price, if present, must be an integer 1..5 *)
ValidPriceFromZero(price) == price = NoPrice \/ price \in 0..5
ValidPrice(price) == price = NoPrice \/ price \in 1..5

(* the author holds a membership (ADMIN or WRITER) in the journal *)
IsJournalMemberAdminOnly(u, j) ==
    \E m \in members : m.userId = u /\ m.journalId = j /\ m.role = "ADMIN"
IsJournalMember(u, j) ==
    \E m \in members : m.userId = u /\ m.journalId = j /\ m.role \in {"ADMIN", "WRITER"}

(* The rows matched by the updateMany of the link step *)
LinkMatchesAnyOwner(i, imageUrls, userId) ==
    /\ i.url \in Range(imageUrls)
    /\ i.articleId = Null
LinkMatches(i, imageUrls, userId) ==
    /\ i.url \in Range(imageUrls)
    /\ i.userId = userId
    /\ i.articleId = Null

(* prisma.article.create of request p with the locals l *)
ArticleCreate(p, l) ==
    /\ nextId.article <= MaxArticles
    /\ IF l.journalId # Null /\ ~ \E j \in journals : j.id = l.journalId THEN
          \* foreign key article_journalId_fkey: create throws, caught
          /\ Reply(p, "publish", 500, <<>>)
          /\ UNCHANGED <<articles, nextId>>
       ELSE
          /\ articles' = articles \cup
               {[id |-> nextId.article, title |-> l.title, content |-> l.content,
                 thumbnailUrl |-> l.thumbnailUrl, price |-> l.price,
                 userId |-> l.user, journalId |-> l.journalId]}
          /\ nextId' = [nextId EXCEPT !.article = @ + 1]
          /\ Goto(p, At("publish", "pub_link", TRUE, [l EXCEPT !.article = nextId.article]))
          /\ UNCHANGED resp

(* handlePublishConfirm: the write page posts title, content, thumbnailUrl,  *)
(* price and journalId to /api/articles                                    *)
PublishConfirm(p, in) ==
    /\ reqs[p].pc = "done"
    /\ \E u \in in.sessions, title \in in.titles, content \in in.contents,
          thumbnailUrl \in in.thumbs, price \in in.prices, journalId \in in.journals :
         Goto(p, At("publish", "sent", FALSE,
                    [sessions |-> {u}, titles |-> {title}, contents |-> {content},
                     thumbs |-> {thumbnailUrl}, prices |-> {price},
                     journals |-> {journalId}]))
    /\ UNCHANGED <<ui, journals, members, articles, images, purchases, storage, used, now,
                   nextId, resp>>

PublishStart(p, in) ==
    /\ Free(p)
    /\ \E u \in in.sessions, title \in in.titles, content \in in.contents,
          thumbnailUrl \in in.thumbs, price \in in.prices, journalId \in in.journals :
         LET l == [user |-> u, title |-> title, content |-> content,
                   thumbnailUrl |-> thumbnailUrl, price |-> price,
                   journalId |-> journalId, article |-> Null]
             reject(st) == /\ Reply(p, "publish", st, <<>>)
                           /\ UNCHANGED <<articles, nextId>>
         IN  IF u = NoUser THEN reject(401)
             ELSE IF title = "" \/ content = NoContent THEN reject(400)
             ELSE IF ~ ValidPrice(price) THEN reject(400)
             ELSE IF journalId # Null THEN
                  IF ~ IsJournalMember(u, journalId) THEN reject(403)
                  ELSE /\ Goto(p, At("publish", "pub_create", FALSE, l))
                       /\ UNCHANGED <<articles, nextId, resp>>
             ELSE ArticleCreate(p, l)
    /\ UNCHANGED <<ui, journals, members, images, storage, used, now, purchases>>

PublishCreate(p) ==
    /\ reqs[p].pc = "pub_create"
    /\ ArticleCreate(p, reqs[p].loc)
    /\ UNCHANGED <<ui, journals, members, images, storage, used, now, purchases>>

PublishLink(p) ==
    /\ reqs[p].pc = "pub_link"
    /\ LET l == reqs[p].loc
           imageUrls == ImageUrls(l.content, l.thumbnailUrl)
       IN  /\ images' = IF Len(imageUrls) > 0
                        THEN {IF LinkMatches(i, imageUrls, l.user)
                              THEN [i EXCEPT !.articleId = l.article] ELSE i : i \in images}
                        ELSE images
           /\ Reply(p, "publish", 200, <<>>)
    /\ UNCHANGED <<ui, journals, members, articles, storage, used, now, nextId, purchases>>

----------------------------------------------------------------------------
(* POST /api/journals: create journal.  Names and slugs are sequences of   *)
(* one-character strings.                                                  *)

Upper == <<"A", "B", "C", "J", "M">>
Lower == <<"a", "b", "c", "j", "m">>
WordChars == Range(Upper) \cup Range(Lower) \cup {"y", "o", "l", "0", "1", "2", "_"}
Space == " "
Dash == "-"

toLowerCase(s) ==
    [i \in DOMAIN s |->
        IF \E k \in DOMAIN Upper : Upper[k] = s[i]
        THEN Lower[CHOOSE k \in DOMAIN Upper : Upper[k] = s[i]] ELSE s[i]]

RECURSIVE trimStart(_)
trimStart(s) == IF s # <<>> /\ Head(s) = Space THEN trimStart(Tail(s)) ELSE s
RECURSIVE trimEnd(_)
trimEnd(s) ==
    IF s # <<>> /\ s[Len(s)] = Space THEN trimEnd(SubSeq(s, 1, Len(s) - 1)) ELSE s
trim(s) == trimEnd(trimStart(s))

(* replace(/[^\w\s-]/g, "") *)
IsSlugChar(c) == c \in WordChars \cup {Space, Dash}
removeNonWord(s) == SelectSeq(s, IsSlugChar)

(* replace(/c+/g, "-"): every maximal run of c becomes one dash *)
RECURSIVE collapseRuns(_, _)
collapseRuns(s, c) ==
    IF s = <<>> THEN <<>>
    ELSE IF Head(s) = c
         THEN IF Len(s) > 1 /\ s[2] = c THEN collapseRuns(Tail(s), c)
              ELSE <<Dash>> \o collapseRuns(Tail(s), c)
         ELSE <<Head(s)>> \o collapseRuns(Tail(s), c)

slugify(name) ==
    collapseRuns(collapseRuns(removeNonWord(trim(toLowerCase(name))), Space), Dash)

Digit36 == <<"0", "1", "2", "3", "4", "5", "6", "7", "8", "9", "a", "b", "c", "d", "e",
             "f", "g", "h", "i", "j", "k", "l", "m", "n", "o", "p", "q", "r", "s", "t",
             "u", "v", "w", "x", "y", "z">>
RECURSIVE toString36(_)
toString36(n) ==
    IF n < 36 THEN <<Digit36[n + 1]>>
    ELSE toString36(n \div 36) \o <<Digit36[(n % 36) + 1]>>

CoolJournal == <<"M", "y", " ", "C", "o", "o", "l", " ", "J", "!">>

(* The journals page sends POST /api/journals with its session and a name *)
JournalCall(p, in) ==
    /\ reqs[p].pc = "done"
    /\ \E u \in in.sessions, name \in in.names :
         Goto(p, At("createJournal", "sent", FALSE, [sessions |-> {u}, names |-> {name}]))
    /\ UNCHANGED <<ui, journals, members, articles, images, purchases, storage, used, now,
                   nextId, resp>>

JournalFind(p, in) ==
    /\ Free(p)
    /\ \E u \in in.sessions, name \in in.names :
         IF u = NoUser THEN Reply(p, "createJournal", 401, <<>>)
         ELSE IF name = <<>> \/ trim(name) = <<>> THEN Reply(p, "createJournal", 400, <<>>)
         ELSE LET slug == slugify(name)
                  existing == \E j \in journals : j.slug = slug
              IN  /\ Goto(p, At("createJournal", "j_create", FALSE,
                         [user |-> u, name |-> trim(name),
                          slug |-> IF existing
                                   THEN slug \o <<Dash>> \o toString36(now) ELSE slug]))
                  /\ UNCHANGED resp
    /\ UNCHANGED <<ui, journals, members, articles, images, storage, used,
                   now, nextId, purchases>>

(* prisma.journal.create with the nested members.create: one statement *)
JournalCreateAlone(p) ==
    /\ reqs[p].pc = "j_create"
    /\ nextId.journal <= MaxJournals
    /\ LET l == reqs[p].loc IN
       IF \E j \in journals : j.slug = l.slug THEN
          /\ Reply(p, "createJournal", 500, <<>>)
          /\ UNCHANGED <<journals, nextId>>
       ELSE
          /\ journals' = journals \cup
               {[id |-> nextId.journal, name |-> l.name, slug |-> l.slug]}
          /\ nextId' = [nextId EXCEPT !.journal = @ + 1]
          /\ Reply(p, "createJournal", 201, <<>>)
    /\ UNCHANGED <<ui, members, articles, images, purchases, storage, used, now>>
JournalCreate(p) ==
    /\ reqs[p].pc = "j_create"
    /\ nextId.journal <= MaxJournals
    /\ nextId.member <= MaxMembers
    /\ LET l == reqs[p].loc IN
       IF \E j \in journals : j.slug = l.slug THEN
          \* unique index journal_slug_key: create throws, caught
          /\ Reply(p, "createJournal", 500, <<>>)
          /\ UNCHANGED <<journals, members, nextId>>
       ELSE
          /\ journals' = journals \cup
               {[id |-> nextId.journal, name |-> l.name, slug |-> l.slug]}
          /\ members' = members \cup
               {[id |-> nextId.member, userId |-> l.user,
                 journalId |-> nextId.journal, role |-> "ADMIN"]}
          /\ nextId' = [nextId EXCEPT !.journal = @ + 1, !.member = @ + 1]
          /\ Reply(p, "createJournal", 201, <<>>)
    /\ UNCHANGED <<ui, articles, images, storage, used, now, purchases>>

----------------------------------------------------------------------------
(* /api/journals/members *)

(* findFirst({ where: { userId, journalId, role: "ADMIN" } }) *)
requireAdminAnyRole(userId, journalId) ==
    {m \in members : m.userId = userId /\ m.journalId = journalId}
requireAdmin(userId, journalId) ==
    {m \in members : m.userId = userId /\ m.journalId = journalId /\ m.role = "ADMIN"}

AdminCount(journalId) ==
    Cardinality({m \in members : m.journalId = journalId /\ m.role = "ADMIN"})

EmailOf == [u \in Users |-> IF u = "u1" THEN "a@kiosk" ELSE "b@kiosk"]

(* The journals page: fetchMembers, handleAddMember, handleRemoveMember and *)
(* handleChangeRole send a request to /api/journals/members                *)
MembersCall(p, in) ==
    /\ reqs[p].pc = "done"
    /\ \E o \in in.ops, u \in in.sessions, journalId \in in.journalIds :
       \E memberId \in (IF o \in {"removeMember", "changeRole"} THEN in.memberIds ELSE {Null}),
          role \in (IF o = "changeRole" THEN in.roles ELSE {NoUrl}),
          userEmail \in (IF o = "addMember" THEN in.emails ELSE {NoUrl}) :
         Goto(p, At(o, "sent", FALSE,
                    [sessions |-> {u}, journalIds |-> {journalId}, memberIds |-> {memberId},
                     roles |-> {role}, emails |-> {userEmail}]))
    /\ UNCHANGED <<ui, journals, members, articles, images, purchases, storage, used, now,
                   nextId, resp>>

(* GET: list members *)
ListMembersCheck(p, in) ==
    /\ Free(p)
    /\ \E u \in in.sessions, journalId \in in.journalIds :
         IF u = NoUser THEN Reply(p, "listMembers", 401, <<>>)
         ELSE IF journalId = Null THEN Reply(p, "listMembers", 400, <<>>)
         ELSE IF requireAdmin(u, journalId) = {} THEN Reply(p, "listMembers", 403, <<>>)
         ELSE /\ Goto(p, At("listMembers", "list_find", FALSE, [journalId |-> journalId]))
              /\ UNCHANGED resp
    /\ UNCHANGED <<ui, journals, members, articles, images, purchases, storage, used, now,
                   nextId>>

ListMembersFind(p) ==
    /\ reqs[p].pc = "list_find"
    /\ Reply(p, "listMembers", 200,
             [members |-> {[id |-> m.id, role |-> m.role, user |-> m.userId] :
                              m \in {x \in members : x.journalId = reqs[p].loc.journalId}}])
    /\ UNCHANGED <<ui, journals, members, articles, images, purchases, storage, used, now,
                   nextId>>

(* POST: add member *)
AddMemberCheck(p, in) ==
    /\ Free(p)
    /\ \E u \in in.sessions, journalId \in in.journalIds, userEmail \in in.emails :
         IF u = NoUser THEN Reply(p, "addMember", 401, <<>>)
         ELSE IF journalId = Null \/ userEmail = NoUrl THEN Reply(p, "addMember", 400, <<>>)
         ELSE IF requireAdmin(u, journalId) = {} THEN Reply(p, "addMember", 403, <<>>)
         ELSE IF ~ \E t \in Users : EmailOf[t] = userEmail
              THEN Reply(p, "addMember", 404, <<>>)
         ELSE /\ Goto(p, At("addMember", "add_existing", FALSE,
                     [journalId |-> journalId,
                      targetUser |-> CHOOSE t \in Users : EmailOf[t] = userEmail]))
              /\ UNCHANGED resp
    /\ UNCHANGED <<ui, journals, members, articles, images, storage, used,
                   now, nextId, purchases>>

AddMemberExisting(p) ==
    /\ reqs[p].pc = "add_existing"
    /\ LET l == reqs[p].loc IN
       IF \E m \in members : m.userId = l.targetUser /\ m.journalId = l.journalId
       THEN Reply(p, "addMember", 409, <<>>)
       ELSE /\ Goto(p, At("addMember", "add_create", FALSE, l))
            /\ UNCHANGED resp
    /\ UNCHANGED <<ui, journals, members, articles, images, storage, used,
                   now, nextId, purchases>>

AddMemberCreateUnchecked(p) ==
    /\ reqs[p].pc = "add_create"
    /\ nextId.member <= MaxMembers
    /\ LET l == reqs[p].loc IN
       IF ~ \E j \in journals : j.id = l.journalId
       THEN
          /\ Reply(p, "addMember", 500, <<>>)
          /\ UNCHANGED <<members, nextId>>
       ELSE
          /\ members' = members \cup
               {[id |-> nextId.member, userId |-> l.targetUser,
                 journalId |-> l.journalId, role |-> "WRITER"]}
          /\ nextId' = [nextId EXCEPT !.member = @ + 1]
          /\ Reply(p, "addMember", 201, <<>>)
    /\ UNCHANGED <<ui, journals, articles, images, purchases, storage, used, now>>
AddMemberCreate(p) ==
    /\ reqs[p].pc = "add_create"
    /\ nextId.member <= MaxMembers
    /\ LET l == reqs[p].loc IN
       IF \/ \E m \in members : m.userId = l.targetUser /\ m.journalId = l.journalId
          \/ ~ \E j \in journals : j.id = l.journalId
       THEN
          \* unique index journal_member_userId_journalId_key or foreign key
          \* journal_member_journalId_fkey: create throws, caught
          /\ Reply(p, "addMember", 500, <<>>)
          /\ UNCHANGED <<members, nextId>>
       ELSE
          /\ members' = members \cup
               {[id |-> nextId.member, userId |-> l.targetUser,
                 journalId |-> l.journalId, role |-> "WRITER"]}
          /\ nextId' = [nextId EXCEPT !.member = @ + 1]
          /\ Reply(p, "addMember", 201, <<>>)
    /\ UNCHANGED <<ui, journals, articles, images, storage, used, now, purchases>>

(* DELETE: remove member *)
RemoveMemberCheck(p, in) ==
    /\ Free(p)
    /\ \E u \in in.sessions, journalId \in in.journalIds, memberId \in in.memberIds :
         IF u = NoUser THEN Reply(p, "removeMember", 401, <<>>)
         ELSE IF journalId = Null \/ memberId = Null THEN Reply(p, "removeMember", 400, <<>>)
         ELSE IF requireAdmin(u, journalId) = {} THEN Reply(p, "removeMember", 403, <<>>)
         ELSE IF memberId = (CHOOSE m \in requireAdmin(u, journalId) : TRUE).id
              THEN Reply(p, "removeMember", 400, [error |-> "self"])
         ELSE /\ Goto(p, At("removeMember", "rm_delete", FALSE,
                     [journalId |-> journalId, memberId |-> memberId]))
              /\ UNCHANGED resp
    /\ UNCHANGED <<ui, journals, members, articles, images, storage, used,
                   now, nextId, purchases>>

(* prisma.journalMember.delete({ where: { id: memberId } }) *)
RemoveTarget(journalId, memberId) == {m \in members : m.id = memberId}

RemoveMemberDelete(p) ==
    /\ reqs[p].pc = "rm_delete"
    /\ LET hit == RemoveTarget(reqs[p].loc.journalId, reqs[p].loc.memberId) IN
       IF hit = {} THEN
          \* record to delete does not exist: delete throws, caught
          /\ Reply(p, "removeMember", 500, <<>>)
          /\ UNCHANGED members
       ELSE
          /\ members' = members \ hit
          /\ Reply(p, "removeMember", 200, <<>>)
    /\ UNCHANGED <<ui, journals, articles, images, storage, used, now, nextId, purchases>>

(* PATCH: change role *)
ChangeRoleCheck(p, in) ==
    /\ Free(p)
    /\ \E u \in in.sessions, journalId \in in.journalIds, memberId \in in.memberIds,
          role \in in.roles :
         IF u = NoUser THEN Reply(p, "changeRole", 401, <<>>)
         ELSE IF journalId = Null \/ memberId = Null \/ role = NoUrl
              THEN Reply(p, "changeRole", 400, <<>>)
         ELSE IF role # "ADMIN" /\ role # "WRITER" THEN Reply(p, "changeRole", 400, <<>>)
         ELSE IF requireAdmin(u, journalId) = {} THEN Reply(p, "changeRole", 403, <<>>)
         ELSE /\ Goto(p, At("changeRole", "role_update", FALSE,
                     [journalId |-> journalId, memberId |-> memberId, role |-> role]))
              /\ UNCHANGED resp
    /\ UNCHANGED <<ui, journals, members, articles, images, storage, used,
                   now, nextId, purchases>>

(* prisma.journalMember.update({ where: { id: memberId }, data: { role } }) *)
UpdateTarget(journalId, memberId) == {m \in members : m.id = memberId}

ChangeRoleUpdate(p) ==
    /\ reqs[p].pc = "role_update"
    /\ LET l == reqs[p].loc
           hit == UpdateTarget(l.journalId, l.memberId)
       IN  IF hit = {} THEN
              \* record to update not found: update throws, caught
              /\ Reply(p, "changeRole", 500, <<>>)
              /\ UNCHANGED members
           ELSE
              /\ members' = (members \ hit) \cup {[m EXCEPT !.role = l.role] : m \in hit}
              /\ Goto(p, At("changeRole", "role_count", members' # members,
                         [journalId |-> l.journalId,
                          updated |-> CHOOSE m \in hit : TRUE]))
              /\ UNCHANGED resp
    /\ UNCHANGED <<ui, journals, articles, images, storage, used, now, nextId, purchases>>

ChangeRoleCount(p) ==
    /\ reqs[p].pc = "role_count"
    /\ IF AdminCount(reqs[p].loc.journalId) = 0
       THEN /\ Goto(p, At("changeRole", "role_cascade", reqs[p].wrote, reqs[p].loc))
            /\ UNCHANGED resp
       ELSE Reply(p, "changeRole", 200, [deleted |-> FALSE])
    /\ UNCHANGED <<ui, journals, members, articles, images, storage, used,
                   now, nextId, purchases>>

(* prisma.$transaction([deleteMany members, updateMany articles,          *)
(* journal.delete]): all three or, if the journal is already gone, none.   *)
ChangeRoleCascadeDroppingArticles(p) ==
    /\ reqs[p].pc = "role_cascade"
    /\ LET journalId == reqs[p].loc.journalId IN
       IF ~ \E j \in journals : j.id = journalId THEN
          /\ Reply(p, "changeRole", 500, <<>>)
          /\ UNCHANGED <<journals, members, articles>>
       ELSE
          /\ members' = {m \in members : m.journalId # journalId}
          /\ articles' = {a \in articles : a.journalId # journalId}
          /\ journals' = {j \in journals : j.id # journalId}
          /\ Reply(p, "changeRole", 200, [deleted |-> TRUE])
    /\ UNCHANGED <<ui, images, storage, used, now, nextId, purchases>>

ChangeRoleCascade(p) ==
    /\ reqs[p].pc = "role_cascade"
    /\ LET journalId == reqs[p].loc.journalId IN
       IF ~ \E j \in journals : j.id = journalId THEN
          \* journal.delete throws, the transaction rolls back, caught
          /\ Reply(p, "changeRole", 500, <<>>)
          /\ UNCHANGED <<journals, members, articles>>
       ELSE
          /\ members' = {m \in members : m.journalId # journalId}
          /\ articles' = {IF a.journalId = journalId
                          THEN [a EXCEPT !.journalId = Null] ELSE a : a \in articles}
          /\ journals' = {j \in journals : j.id # journalId}
          /\ Reply(p, "changeRole", 200, [deleted |-> TRUE])
    /\ UNCHANGED <<ui, images, storage, used, now, nextId, purchases>>

----------------------------------------------------------------------------
(* The purchase ledger (table article_purchase) and the article reading    *)
(* page /article/[articleId]                                               *)

(* CREATE UNIQUE INDEX article_purchase_userId_articleId_key *)
PurchaseConflictNone(userId, articleId) == FALSE
PurchaseConflict(userId, articleId) ==
    \E x \in purchases : x.userId = userId /\ x.articleId = articleId

(* A reader asks for a purchase of an article to be recorded *)
PurchaseCall(p, in) ==
    /\ reqs[p].pc = "done"
    /\ \E u \in in.sessions \ {NoUser}, articleId \in in.articleIds, amount \in in.amounts :
         Goto(p, At("purchase", "sent", FALSE,
                    [sessions |-> {u}, articleIds |-> {articleId}, amounts |-> {amount}]))
    /\ UNCHANGED <<ui, journals, members, articles, images, purchases, storage, used, now,
                   nextId, resp>>

(* recordPurchase(userId, articleId, amountPaid): one insert into the      *)
(* ledger, refused with ConflictError when the pair has a purchase         *)
RecordPurchase(p, in) ==
    /\ Free(p)
    /\ \E u \in in.sessions, articleId \in in.articleIds, amountPaid \in in.amounts :
         IF PurchaseConflict(u, articleId) THEN
            /\ Reply(p, "purchase", 409, <<>>)
            /\ UNCHANGED purchases
         ELSE IF ~ \E a \in articles : a.id = articleId THEN
            \* foreign key article_purchase_articleId_fkey: the insert throws
            /\ Reply(p, "purchase", 500, <<>>)
            /\ UNCHANGED purchases
         ELSE
            /\ purchases' = purchases \cup
                 {[id |-> Cardinality(purchases) + 1, userId |-> u,
                   articleId |-> articleId, amountPaid |-> amountPaid, createdAt |-> now]}
            /\ Reply(p, "purchase", 201, <<>>)
    /\ UNCHANGED <<ui, journals, members, articles, images, storage, used, now, nextId>>

(* A viewer, signed in or not, opens the page of an article *)
ViewCall(p, in) ==
    /\ reqs[p].pc = "done"
    /\ \E u \in in.sessions, articleId \in in.articleIds :
         Goto(p, At("view", "sent", FALSE, [sessions |-> {u}, articleIds |-> {articleId}]))
    /\ UNCHANGED <<ui, journals, members, articles, images, purchases, storage, used, now,
                   nextId, resp>>

(* getArticleById(articleId, viewerUserId).hasPurchased *)
hasPurchased(articleId, viewerUserId) ==
    \E x \in purchases : x.userId = viewerUserId /\ x.articleId = articleId

(* const shouldShowPurchaseBanner = hasPrice && !isAuthor && !article.hasPurchased *)
shouldShowPurchaseBannerToAuthor(price, viewerUserId, authorId, purchased) ==
    LET hasPrice == price # NoPrice /\ price > 0
    IN  hasPrice /\ ~ purchased
shouldShowPurchaseBanner(price, viewerUserId, authorId, purchased) ==
    LET isAuthor == viewerUserId = authorId
        hasPrice == price # NoPrice /\ price > 0
    IN  hasPrice /\ ~ isAuthor /\ ~ purchased

(* FullArticle: the banner is rendered when shouldShowPurchaseBanner &&    *)
(* price, the body when !shouldShowPurchaseBanner                          *)
FullArticle(a, banner) ==
    [article |-> a.id, price |-> a.price, author |-> a.userId,
     banner |-> banner /\ a.price # NoPrice /\ a.price # 0, body |-> ~ banner]

(* ArticlePage: getArticleById answers null when the article is missing    *)
(* and when its query throws                                               *)
ArticlePage(p, in) ==
    /\ Free(p)
    /\ \E viewerUserId \in in.sessions, articleId \in in.articleIds, ok \in BOOLEAN :
         IF ~ ok \/ ~ \E a \in articles : a.id = articleId
         THEN Reply(p, "view", 404, <<>>)
         ELSE LET article == CHOOSE a \in articles : a.id = articleId
              IN  Reply(p, "view", 200,
                        FullArticle(article,
                            shouldShowPurchaseBanner(article.price, viewerUserId,
                                article.userId, hasPurchased(articleId, viewerUserId))))
    /\ UNCHANGED <<ui, journals, members, articles, images, purchases, storage, used, now,
                   nextId>>

----------------------------------------------------------------------------
(* The article body: FullArticle renders the TipTap JSON tree.             *)
(* A node is [type, attrs, text, marks, content]; each field other than   *)
(* type is optional and held as a set, empty when the field is missing     *)
(* and {v} when it is v.  A mark is [type, attrs], attrs optional too.     *)

MaxMarks == 3

TNode(t, attrs, text, marks, content) ==
    [type |-> t, attrs |-> attrs, text |-> text, marks |-> marks, content |-> content]
Mark(t, attrs) == [type |-> t, attrs |-> attrs]
The(opt) == CHOOSE x \in opt : TRUE

(* React elements: a tag with children, a string, null, and the outcome    *)
(* of a render that threw                                                  *)
El(tag, kids) == [tag |-> tag, text |-> NoUrl, kids |-> kids]
Txt(t) == [tag |-> "#text", text |-> t, kids |-> <<>>]
NullEl == El("#null", <<>>)
Thrown == El("#TypeError", <<>>)

MarkTag ==
    [bold |-> "strong", italic |-> "em", strike |-> "s", underline |-> "u",
     code |-> "code", link |-> "a", highlight |-> "mark", subscript |-> "sub",
     superscript |-> "sup"]

(* the callback of reduceRight: one mark around what is wrapped so far *)
WrapMark(wrapped, mark) ==
    IF mark.type \in DOMAIN MarkTag THEN El(MarkTag[mark.type], <<wrapped>>)
    ELSE wrapped

RECURSIVE reduceRight(_, _)
reduceRight(marks, acc) ==
    IF marks = <<>> THEN acc
    ELSE reduceRight(SubSeq(marks, 1, Len(marks) - 1), WrapMark(acc, marks[Len(marks)]))

RECURSIVE reduce(_, _)
reduce(marks, acc) ==
    IF marks = <<>> THEN acc
    ELSE reduce(Tail(marks), WrapMark(acc, Head(marks)))

applyMarksWithReduce(children, marks) ==
    IF marks = {} \/ marks = {<<>>} THEN children
    ELSE reduce(The(marks), children)

applyMarks(children, marks) ==
    IF marks = {} \/ marks = {<<>>} THEN children
    ELSE reduceRight(The(marks), children)

BlockTag ==
    [paragraph |-> "p", blockquote |-> "blockquote", bulletList |-> "ul",
     orderedList |-> "ol", listItem |-> "li", taskList |-> "ul"]

HeadingTag(level) ==
    CASE level = 1 -> "h1" [] level = 3 -> "h3" [] level = 4 -> "h4"
      [] level = 5 -> "h5" [] level = 6 -> "h6" [] OTHER -> "h2"

RECURSIVE renderNodeUnguarded(_)
RECURSIVE renderAllUnguarded(_)
renderNodeUnguarded(node) ==
    IF node.type = "text"
    THEN El("Fragment",
            <<applyMarks(Txt(IF node.text = {} THEN NoUrl ELSE The(node.text)), node.marks)>>)
    ELSE
    LET children == IF node.content = {} THEN {} ELSE {renderAllUnguarded(The(node.content))}
        kids == IF children = {} THEN <<>> ELSE The(children)
    IN  IF \E i \in DOMAIN kids : kids[i] = Thrown THEN Thrown
        ELSE CASE node.type = "doc" -> El("Fragment", kids)
          [] node.type \in DOMAIN BlockTag -> El(BlockTag[node.type], kids)
          [] node.type = "heading" ->
                El(HeadingTag(IF node.attrs = {} \/ The(node.attrs).level = 0 THEN 2
                              ELSE The(node.attrs).level), kids)
          [] node.type = "image" ->
                IF node.attrs = {} THEN Thrown
                ELSE El("figure", <<El("img", <<>>)>> \o
                       (IF The(node.attrs).alt # NoUrl
                        THEN <<El("figcaption", <<Txt(The(node.attrs).alt)>>)>> ELSE <<>>))
          [] node.type = "codeBlock" -> El("pre", <<El("code", kids)>>)
          [] node.type = "taskItem" -> El("li", <<El("input", <<>>), El("div", kids)>>)
          [] node.type = "horizontalRule" -> El("hr", <<>>)
          [] node.type = "hardBreak" -> El("br", <<>>)
          [] OTHER -> IF children # {} THEN El("div", kids) ELSE NullEl
renderAllUnguarded(nodes) ==
    [i \in DOMAIN nodes |-> renderNodeUnguarded(nodes[i])]

RECURSIVE renderNode(_)
RECURSIVE renderAll(_)
(* renderNode(node, index); the index is the React key only.  A render of *)
(* a child that throws ends the render of its parent.                      *)
renderNode(node) ==
    IF node.type = "text"
    THEN El("Fragment",
            <<applyMarks(Txt(IF node.text = {} THEN NoUrl ELSE The(node.text)), node.marks)>>)
    ELSE
    LET children == IF node.content = {} THEN {} ELSE {renderAll(The(node.content))}
        kids == IF children = {} THEN <<>> ELSE The(children)
    IN  IF \E i \in DOMAIN kids : kids[i] = Thrown THEN Thrown
        ELSE CASE node.type = "doc" -> El("Fragment", kids)
          [] node.type \in DOMAIN BlockTag -> El(BlockTag[node.type], kids)
          [] node.type = "heading" ->
                El(HeadingTag(IF node.attrs = {} \/ The(node.attrs).level = 0 THEN 2
                              ELSE The(node.attrs).level), kids)
          [] node.type = "image" ->
                El("figure", <<El("img", <<>>)>> \o
                   (IF node.attrs # {} /\ The(node.attrs).alt # NoUrl
                    THEN <<El("figcaption", <<Txt(The(node.attrs).alt)>>)>> ELSE <<>>))
          [] node.type = "codeBlock" -> El("pre", <<El("code", kids)>>)
          [] node.type = "taskItem" -> El("li", <<El("input", <<>>), El("div", kids)>>)
          [] node.type = "horizontalRule" -> El("hr", <<>>)
          [] node.type = "hardBreak" -> El("br", <<>>)
          [] OTHER -> IF children # {} THEN El("div", kids) ELSE NullEl
renderAll(nodes) ==
    [i \in DOMAIN nodes |-> renderNode(nodes[i])]

(* The article page hands a content tree to FullArticle *)
RenderCall(p, in) ==
    /\ reqs[p].pc = "done"
    /\ \E tree \in in.trees :
         Goto(p, At("render", "sent", FALSE, [trees |-> {tree}]))
    /\ UNCHANGED <<ui, journals, members, articles, images, purchases, storage, used, now,
                   nextId, resp>>

(* renderNode(content, 0) is called: the calls still to be made are kept   *)
(* as a stack of nodes                                                     *)
RenderBegin(p, in) ==
    /\ \E tree \in in.trees :
         Goto(p, At("render", "visit", FALSE, [tree |-> tree, stack |-> <<tree>>]))
    /\ UNCHANGED <<ui, journals, members, articles, images, purchases, storage, used, now,
                   nextId, resp>>

(* the callees of a call of renderNode: none for a text node, and one per  *)
(* element of node.content, if it has one, for every other node            *)
Callees(node) ==
    IF node.type = "text" \/ node.content = {} THEN <<>> ELSE The(node.content)

(* one call of renderNode begins and its calls for the children are due *)
RenderVisit(p) ==
    /\ reqs[p].pc = "visit"
    /\ reqs[p].loc.stack # <<>>
    /\ Goto(p, [reqs[p] EXCEPT !.loc.stack = Callees(Head(@)) \o Tail(@)])
    /\ UNCHANGED <<ui, journals, members, articles, images, purchases, storage, used, now,
                   nextId, resp>>

(* every call has returned: the body is on the page, or the render threw *)
RenderDone(p) ==
    /\ reqs[p].pc = "visit"
    /\ reqs[p].loc.stack = <<>>
    /\ LET out == renderNode(reqs[p].loc.tree) IN
       IF out = Thrown THEN Reply(p, "render", 500, <<>>)
       ELSE Reply(p, "render", 200, [body |-> out])
    /\ UNCHANGED <<ui, journals, members, articles, images, storage, used,
                   now, nextId, purchases>>

----------------------------------------------------------------------------
(* The user search box (SearchUsers): searchFor is the input, users the    *)
(* list shown; timeout says that the timer of the current effect is set,   *)
(* elapsed is the time since the input changed, effect counts the runs of  *)
(* the effect, and fetches holds the requests awaiting their response,     *)
(* each with the effect that issued it.                                    *)

MaxEffects == 4
MinLength == 3
Debounce == 200

(* onChange: setSearchFor(value).  The cleanup of the effect of the old   *)
(* value clears its timer and aborts its request, and the effect runs for  *)
(* the new value.                                                          *)
SearchTypeNoAbort(values) ==
    /\ ui.search.effect < MaxEffects
    /\ \E value \in values \ {ui.search.searchFor} :
         ui' = [ui EXCEPT !.search =
                  [searchFor |-> value,
                   users |-> IF Len(value) < MinLength THEN <<>> ELSE @.users,
                   timeout |-> Len(value) >= MinLength,
                   elapsed |-> 0,
                   effect |-> @.effect + 1,
                   fetches |-> @.fetches]]
    /\ UNCHANGED <<journals, members, articles, images, purchases, storage, used, now,
                   nextId, reqs, resp>>

SearchType(values) ==
    /\ ui.search.effect < MaxEffects
    /\ \E value \in values \ {ui.search.searchFor} :
         ui' = [ui EXCEPT !.search =
                  [searchFor |-> value,
                   users |-> IF Len(value) < MinLength THEN <<>> ELSE @.users,
                   timeout |-> Len(value) >= MinLength,
                   elapsed |-> 0,
                   effect |-> @.effect + 1,
                   fetches |-> {f \in @.fetches : f.effect # @.effect}]]
    /\ UNCHANGED <<journals, members, articles, images, purchases, storage, used, now,
                   nextId, reqs, resp>>

(* time passes while the timer is set *)
SearchWait ==
    /\ ui.search.timeout
    /\ ui.search.elapsed < Debounce
    /\ ui' = [ui EXCEPT !.search.elapsed = @ + Debounce \div 2]
    /\ UNCHANGED <<journals, members, articles, images, purchases, storage, used, now,
                   nextId, reqs, resp>>

(* the timer fires: fetch(`/api/users/searchByName?name=${searchFor}`) *)
SearchTimeout ==
    /\ ui.search.timeout
    /\ ui.search.elapsed >= Debounce
    /\ ui' = [ui EXCEPT !.search.timeout = FALSE,
                        !.search.fetches = @ \cup {[effect |-> ui.search.effect,
                                                    name |-> ui.search.searchFor]}]
    /\ UNCHANGED <<journals, members, articles, images, purchases, storage, used, now,
                   nextId, reqs, resp>>

(* a request comes back: setUsers(data.users), or the fetch fails and the  *)
(* list stays                                                              *)
SearchResponse(results) ==
    /\ \E f \in ui.search.fetches, ok \in BOOLEAN, data \in results :
         ui' = [ui EXCEPT !.search.fetches = @ \ {f},
                          !.search.users = IF ok THEN data ELSE @]
    /\ UNCHANGED <<journals, members, articles, images, purchases, storage, used, now,
                   nextId, reqs, resp>>

----------------------------------------------------------------------------
(* The write page and its publish modal (Editor, PublishModal).  The modal *)
(* stays mounted while it is hidden, so its state outlives a close by the  *)
(* page.  awaiting names the fetch whose response a handler of the page is *)
(* waiting for on connection p; the handlers that send a request are       *)
(* taken one at a time.                                                    *)

(* the url UploadThing serves the file with this key under *)
ufsUrl(key) == IF key = "k1" THEN "x" ELSE "y"

ModalIdle(p) == ui.modal.awaiting = "none" /\ reqs[p] = Idle

(* the Publish button of the page *)
handlePublishClick ==
    /\ ~ ui.modal.isPublishing
    /\ ~ ui.modal.showPublishModal
    /\ ui' = [ui EXCEPT !.modal.showPublishModal = TRUE]
    /\ UNCHANGED <<journals, members, articles, images, purchases, storage, used, now,
                   nextId, reqs, resp>>

(* a file is dropped on the modal: uploadFiles stores it, and the modal    *)
(* sends POST /api/images with the url and the key it got back             *)
handleFileSelect(p, in) ==
    /\ ui.modal.showPublishModal
    /\ ui.modal.thumbnailUrl = NoUrl
    /\ ~ ui.modal.isUploading
    /\ ModalIdle(p)
    /\ \E u \in in.sessions, key \in in.keys \ used :
         /\ storage' = storage \cup {key}
         /\ used' = used \cup {key}
         /\ Goto(p, At("recordImage", "sent", FALSE,
                       [sessions |-> {u}, urls |-> {ufsUrl(key)}, keys |-> {key}]))
         /\ ui' = [ui EXCEPT !.modal.isUploading = TRUE,
                             !.modal.awaiting = "save",
                             !.modal.uploadedFile = [url |-> ufsUrl(key), key |-> key]]
    /\ UNCHANGED <<journals, members, articles, images, purchases, now, nextId, resp>>

(* the response to POST /api/images is in: whatever it says, the modal     *)
(* shows the thumbnail                                                     *)
handleFileSaved(p) ==
    /\ ui.modal.awaiting = "save"
    /\ reqs[p] = Idle
    /\ ui' = [ui EXCEPT !.modal.thumbnailUrl = ui.modal.uploadedFile.url,
                        !.modal.thumbnailKey = ui.modal.uploadedFile.key,
                        !.modal.isUploading = FALSE,
                        !.modal.awaiting = "none"]
    /\ UNCHANGED <<journals, members, articles, images, purchases, storage, used, now,
                   nextId, reqs, resp>>

(* the X on the thumbnail: DELETE /api/images with the key the modal holds *)
handleRemoveThumbnail(p, in) ==
    /\ ui.modal.showPublishModal
    /\ ui.modal.thumbnailUrl # NoUrl
    /\ ui.modal.thumbnailKey # NoUrl
    /\ ~ ui.modal.isPublishing
    /\ ModalIdle(p)
    /\ \E u \in in.sessions :
         Goto(p, At("deleteImage", "sent", FALSE,
                    [sessions |-> {u}, keys |-> {ui.modal.thumbnailKey}]))
    /\ ui' = [ui EXCEPT !.modal.awaiting = "delete"]
    /\ UNCHANGED <<journals, members, articles, images, purchases, storage, used, now,
                   nextId, resp>>

handleThumbnailRemoved(p) ==
    /\ ui.modal.awaiting = "delete"
    /\ reqs[p] = Idle
    /\ ui' = [ui EXCEPT !.modal.thumbnailUrl = NoUrl,
                        !.modal.thumbnailKey = NoUrl,
                        !.modal.awaiting = "none"]
    /\ UNCHANGED <<journals, members, articles, images, purchases, storage, used, now,
                   nextId, reqs, resp>>

(* Publish in the modal: onConfirm(thumbnailUrl, price, journalId), and    *)
(* the page sends POST /api/articles                                       *)
handlePublishConfirm(p, in) ==
    /\ ui.modal.showPublishModal
    /\ ~ ui.modal.isPublishing
    /\ ~ ui.modal.isUploading
    /\ ModalIdle(p)
    /\ \E u \in in.sessions, title \in in.titles, content \in in.contents,
          price \in in.prices, journalId \in in.journals :
         Goto(p, At("publish", "sent", FALSE,
                    [sessions |-> {u}, titles |-> {title}, contents |-> {content},
                     thumbs |-> {ui.modal.thumbnailUrl}, prices |-> {price},
                     journals |-> {journalId}]))
    /\ ui' = [ui EXCEPT !.modal.isPublishing = TRUE, !.modal.awaiting = "publish"]
    /\ UNCHANGED <<journals, members, articles, images, purchases, storage, used, now,
                   nextId, resp>>

(* the response to the publish is in: on success the page hides the modal, *)
(* whose own state stays as it is                                          *)
handlePublished(p) ==
    /\ ui.modal.awaiting = "publish"
    /\ reqs[p] = Idle
    /\ ui' = [ui EXCEPT !.modal.showPublishModal = IF resp.status = 200 THEN FALSE ELSE @,
                        !.modal.isPublishing = FALSE,
                        !.modal.awaiting = "none"]
    /\ UNCHANGED <<journals, members, articles, images, purchases, storage, used, now,
                   nextId, reqs, resp>>

(* Cancel, the X of the modal or a click on the backdrop *)
handleClose ==
    /\ ui.modal.showPublishModal
    /\ ui' = [ui EXCEPT !.modal.thumbnailUrl = NoUrl,
                        !.modal.thumbnailKey = NoUrl,
                        !.modal.showPublishModal = FALSE]
    /\ UNCHANGED <<journals, members, articles, images, purchases, storage, used, now,
                   nextId, reqs, resp>>

----------------------------------------------------------------------------
(* A rejected await: the database or the storage call of the request's    *)
(* next statement throws, the catch block answers 500 and the statement    *)
(* has no effect.                                                          *)

Throw(p) ==
    /\ reqs[p].pc # "done"
    /\ Reply(p, reqs[p].op, 500, <<>>)
    /\ UNCHANGED <<ui, journals, members, articles, images, storage, used,
                   now, nextId, purchases>>

----------------------------------------------------------------------------
(* The sweep against uploads and publish: the cron connection runs the     *)
(* sweep while a client records uploads and publishes.  Requests are       *)
(* authenticated and well-formed, and the client records the keys that     *)
(* UploadThing returned.                                                   *)

SweepInputs ==
    [sessions |-> {"u1"}, urls |-> {"x"}, keys |-> used, headers |-> {"Bearer s"},
     secrets |-> {CronSecret}, envs |-> {NodeEnv},
     titles |-> {"t"}, contents |-> {DocX}, thumbs |-> {NoUrl},
     prices |-> {NoPrice}, journals |-> {Null}]

NextSweep ==
    \/ Tick
    \/ Upload(Keys)
    \/ RecordImage("c1", SweepInputs)
    \/ PublishStart("c1", SweepInputs)
    \/ PublishLink("c1")
    \/ SweepFind("cron", SweepInputs)
    \/ SweepStorage("cron")
    \/ SweepDb("cron")
    \/ \E p \in {"c1", "cron"} : Throw(p)

SpecSweep == Init /\ [][NextSweep]_vars

(* Publish against uploads: two clients record uploads and publish *)

LinkInputs ==
    [sessions |-> Users, urls |-> Urls, keys |-> {"k1", "k2"},
     titles |-> {"t"}, contents |-> {DocText, DocX}, thumbs |-> {NoUrl, "y"},
     prices |-> {NoPrice}, journals |-> {Null}]

NextLink ==
    \/ \E p \in {"c1", "c2"} : RecordImage(p, LinkInputs)
    \/ \E p \in {"c1", "c2"} : PublishStart(p, LinkInputs)
    \/ \E p \in {"c1", "c2"} : PublishLink(p)
    \/ \E p \in {"c1", "c2"} : Throw(p)

SpecLink == Init /\ [][NextLink]_vars

(* Owner deletion against uploads and publish: one client records uploads  *)
(* and publishes, another deletes images.                                  *)

DeleteInputs ==
    [sessions |-> Users, urls |-> {"x"}, keys |-> used,
     titles |-> {"t"}, contents |-> {DocX}, thumbs |-> {NoUrl},
     prices |-> {NoPrice}, journals |-> {Null}]

NextDelete ==
    \/ Upload({"k1", "k2"})
    \/ RecordImage("c1", DeleteInputs)
    \/ PublishStart("c1", DeleteInputs)
    \/ PublishLink("c1")
    \/ DeleteImageFind("c2", DeleteInputs)
    \/ DeleteImageStorage("c2")
    \/ DeleteImageDb("c2")
    \/ \E p \in {"c1", "c2"} : Throw(p)

SpecDelete == Init /\ [][NextDelete]_vars

(* Journals: each of two users, on a connection of their own, creates     *)
(* journals and manages members.  Requests are authenticated and           *)
(* well-formed.                                                            *)

Clients == {"c1", "c2"}
UserOf == [p \in Clients |-> IF p = "c1" THEN "u1" ELSE "u2"]

JournalInputs(p) ==
    [sessions |-> {UserOf[p]}, names |-> {CoolJournal},
     journalIds |-> 1..MaxJournals, memberIds |-> 1..MaxMembers,
     roles |-> {"ADMIN", "WRITER"}, emails |-> {EmailOf[u] : u \in Users}]

NextJournal ==
    \/ \E p \in Clients : JournalFind(p, JournalInputs(p))
    \/ \E p \in Clients : JournalCreate(p)
    \/ \E p \in Clients : AddMemberCheck(p, JournalInputs(p))
    \/ \E p \in Clients : AddMemberExisting(p)
    \/ \E p \in Clients : AddMemberCreate(p)
    \/ \E p \in Clients : RemoveMemberCheck(p, JournalInputs(p))
    \/ \E p \in Clients : RemoveMemberDelete(p)
    \/ \E p \in Clients : ChangeRoleCheck(p, JournalInputs(p))
    \/ \E p \in Clients : ChangeRoleUpdate(p)
    \/ \E p \in Clients : ChangeRoleCount(p)
    \/ \E p \in Clients : ChangeRoleCascade(p)
    \/ \E p \in Clients : Throw(p)

SpecJournal == Init /\ [][NextJournal]_vars

(* The cascade: each of two users creates journals, changes roles and     *)
(* publishes into journals.                                                *)

CascadeInputs(p) ==
    [sessions |-> {UserOf[p]}, names |-> {CoolJournal},
     journalIds |-> 1..MaxJournals, memberIds |-> 1..MaxMembers,
     roles |-> {"ADMIN", "WRITER"},
     titles |-> {"t"}, contents |-> {DocText}, thumbs |-> {NoUrl},
     prices |-> {NoPrice}, journals |-> 1..MaxJournals]

NextCascade ==
    \/ \E p \in Clients : JournalFind(p, CascadeInputs(p))
    \/ \E p \in Clients : JournalCreate(p)
    \/ \E p \in Clients : ChangeRoleCheck(p, CascadeInputs(p))
    \/ \E p \in Clients : ChangeRoleUpdate(p)
    \/ \E p \in Clients : ChangeRoleCount(p)
    \/ \E p \in Clients : ChangeRoleCascade(p)
    \/ \E p \in Clients : PublishStart(p, CascadeInputs(p))
    \/ \E p \in Clients : PublishCreate(p)
    \/ \E p \in Clients : PublishLink(p)
    \/ \E p \in Clients : Throw(p)

SpecCascade == Init /\ [][NextCascade]_vars

(* Prices: a signed-in author publishes articles with a title and content  *)
(* at every kind of price.                                                 *)

PriceInputs ==
    [sessions |-> {"u1"}, titles |-> {"t"}, contents |-> {DocText}, thumbs |-> {NoUrl},
     prices |-> {NoPrice, Fractional} \cup (-1 .. 6), journals |-> {Null}]

NextPrice ==
    \/ PublishConfirm("c1", PriceInputs)
    \/ Sent("c1", "publish") /\ PublishStart("c1", reqs["c1"].loc)
    \/ PublishLink("c1")
    \/ Throw("c1")

SpecPrice == Init /\ [][NextPrice]_vars

(* Publishing into journals: user u1 creates journals and adds and removes *)
(* the other user, while either user publishes, personally or into a       *)
(* journal.                                                                *)

ManageInputs ==
    [sessions |-> {"u1"}, names |-> {CoolJournal}, journalIds |-> {1},
     memberIds |-> {2, 3}, emails |-> {EmailOf["u2"]}]

IntoJournalInputs ==
    [sessions |-> Users, titles |-> {"t"}, contents |-> {DocText}, thumbs |-> {NoUrl},
     prices |-> {NoPrice}, journals |-> {Null, 1, 2}]

NextIntoJournal ==
    \/ JournalFind("c1", ManageInputs)
    \/ JournalCreate("c1")
    \/ AddMemberCheck("c1", ManageInputs)
    \/ AddMemberExisting("c1")
    \/ AddMemberCreate("c1")
    \/ RemoveMemberCheck("c1", ManageInputs)
    \/ RemoveMemberDelete("c1")
    \/ PublishConfirm("c2", IntoJournalInputs)
    \/ Sent("c2", "publish") /\ PublishStart("c2", reqs["c2"].loc)
    \/ PublishCreate("c2")
    \/ PublishLink("c2")
    \/ \E p \in Clients : Throw(p)

SpecIntoJournal == Init /\ [][NextIntoJournal]_vars

(* Members: user u1 creates a journal on one connection and sends member   *)
(* requests on it, while member requests of either user arrive on the      *)
(* other connection.                                                       *)

MemberOps == {"listMembers", "addMember", "removeMember", "changeRole"}

MembersInputs(p) ==
    [ops |-> MemberOps, sessions |-> IF p = "c1" THEN {"u1"} ELSE Users,
     names |-> {CoolJournal}, journalIds |-> {1}, memberIds |-> {1, 2},
     roles |-> {"ADMIN", "WRITER"}, emails |-> {EmailOf["u2"], "nobody@kiosk"}]

NextMembers ==
    \/ reqs["c1"] = Idle /\ JournalFind("c1", MembersInputs("c1"))
    \/ JournalCreate("c1")
    \/ \E p \in Clients : MembersCall(p, MembersInputs(p))
    \/ \E p \in Clients : Sent(p, "listMembers") /\ ListMembersCheck(p, reqs[p].loc)
    \/ \E p \in Clients : ListMembersFind(p)
    \/ \E p \in Clients : Sent(p, "addMember") /\ AddMemberCheck(p, reqs[p].loc)
    \/ \E p \in Clients : AddMemberExisting(p)
    \/ \E p \in Clients : AddMemberCreate(p)
    \/ \E p \in Clients : Sent(p, "removeMember") /\ RemoveMemberCheck(p, reqs[p].loc)
    \/ \E p \in Clients : RemoveMemberDelete(p)
    \/ \E p \in Clients : Sent(p, "changeRole") /\ ChangeRoleCheck(p, reqs[p].loc)
    \/ \E p \in Clients : ChangeRoleUpdate(p)
    \/ \E p \in Clients : ChangeRoleCount(p)
    \/ \E p \in Clients : ChangeRoleCascade(p)
    \/ \E p \in Clients : Throw(p)

SpecMembers == Init /\ [][NextMembers]_vars

(* Reading and purchases: user u1 publishes free and priced articles on   *)
(* one connection; on the other, viewers open article pages and readers    *)
(* have purchases recorded.                                                *)

ReadInputs ==
    [sessions |-> Users \cup {NoUser}, articleIds |-> {1, 2}, amounts |-> {3},
     titles |-> {"t"}, contents |-> {DocText}, thumbs |-> {NoUrl},
     prices |-> {NoPrice, 3}, journals |-> {Null}]

AuthorInputs == [ReadInputs EXCEPT !.sessions = {"u1"}]

NextRead ==
    \/ PublishStart("c1", AuthorInputs)
    \/ PublishLink("c1")
    \/ ViewCall("c2", ReadInputs)
    \/ Sent("c2", "view") /\ ArticlePage("c2", reqs["c2"].loc)
    \/ PurchaseCall("c2", ReadInputs)
    \/ Sent("c2", "purchase") /\ RecordPurchase("c2", reqs["c2"].loc)
    \/ \E p \in Clients : Throw(p)

SpecRead == Init /\ [][NextRead]_vars

(* The ledger: user u1 publishes articles on one connection; on the other, *)
(* readers have purchases recorded, at one amount or another.              *)

LedgerInputs == [ReadInputs EXCEPT !.sessions = Users, !.amounts = {3, 5}]

NextLedger ==
    \/ PublishStart("c1", AuthorInputs)
    \/ PublishLink("c1")
    \/ PurchaseCall("c2", LedgerInputs)
    \/ Sent("c2", "purchase") /\ RecordPurchase("c2", reqs["c2"].loc)
    \/ \E p \in Clients : Throw(p)

SpecLedger == Init /\ [][NextLedger]_vars

(* Deleting images: two users record uploads on one connection and ask,    *)
(* on another, to delete keys that are theirs, another user's or nobody's. *)

OwnedInputs ==
    [DeleteInputs EXCEPT !.keys = {"k1", "k2"} \cap used]

NextOwned ==
    \/ Upload({"k1", "k2"})
    \/ RecordImage("c1", OwnedInputs)
    \/ DeleteCall("c2", [OwnedInputs EXCEPT !.keys = Keys])
    \/ Sent("c2", "deleteImage") /\ DeleteImageFind("c2", reqs["c2"].loc)
    \/ DeleteImageStorage("c2")
    \/ DeleteImageDb("c2")
    \/ \E p \in {"c1", "c2"} : Throw(p)

SpecOwned == Init /\ [][NextOwned]_vars

(* Rendering: the page renders blocks and documents with well-formed and  *)
(* malformed nodes, and text nodes with every short sequence of marks.     *)

NoAttrs == [src |-> NoUrl, alt |-> NoUrl, level |-> 0]
RenderLeaves ==
    {TNode("text", {}, {"a"}, {<<Mark("bold", {}), Mark("blink", {})>>}, {}),
     TNode("text", {}, {}, {}, {}),
     TNode("image", {}, {}, {}, {}),
     TNode("image", {[NoAttrs EXCEPT !.src = "x", !.alt = "a"]}, {}, {}, {}),
     TNode("video", {}, {}, {}, {}),
     TNode("paragraph", {}, {}, {}, {<<>>})}
RenderBlocks ==
    {TNode(t, {}, {}, {}, {<<a, b>>}) :
        t \in {"paragraph", "callout"}, a \in RenderLeaves, b \in RenderLeaves}
OddDoc ==
    TNode("doc", {}, {}, {}, {<<
        TNode("callout", {}, {}, {}, {<<
            TNode("codeBlock", {}, {}, {}, {<<TNode("text", {}, {}, {}, {})>>}),
            TNode("image", {}, {}, {}, {<<TNode("hardBreak", {}, {}, {}, {})>>}) >>}),
        TNode("video", {}, {}, {}, {}),
        TNode("heading", {}, {}, {}, {<<TNode("text", {}, {"a"}, {<<>>}, {})>>}),
        TNode("heading", {[NoAttrs EXCEPT !.level = 7]}, {}, {}, {<<>>}),
        TNode("taskItem", {}, {}, {}, {}),
        TNode("bulletList", {}, {}, {}, {<<TNode("listItem", {}, {}, {}, {})>>}) >>})
RenderInputs ==
    [trees |-> RenderBlocks \cup {OddDoc}]

MarkSet ==
    {Mark("bold", {}), Mark("italic", {}), Mark("link", {[href |-> "x"]}),
     Mark("blink", {})}
MarkSeqs == UNION {[1..n -> MarkSet] : n \in 0..MaxMarks}
MarkInputs ==
    [trees |-> {TNode("text", {}, {"a"}, {ms}, {}) : ms \in MarkSeqs}
                 \cup {TNode("text", {}, {}, {}, {}),
                       TNode("text", {}, {}, {<<Mark("link", {})>>}, {})}]

RenderSteps ==
    \/ Sent("c1", "render") /\ RenderBegin("c1", reqs["c1"].loc)
    \/ RenderVisit("c1")
    \/ RenderDone("c1")

NextRender ==
    \/ RenderCall("c1", RenderInputs)
    \/ RenderSteps

SpecRender == Init /\ [][NextRender]_vars

NextMarks ==
    \/ RenderCall("c1", MarkInputs)
    \/ RenderSteps

SpecMarks == Init /\ [][NextMarks]_vars

(* a render that has begun runs on: it is one synchronous call *)
SpecRenderLive == SpecRender /\ WF_vars(RenderSteps)

(* Extraction: an author records uploads and publishes documents whose    *)
(* image nodes have one src or another or none, some src more than once.   *)

ExtractDocs ==
    {Box("doc", <<Box("paragraph", <<a, b>>), c, Leaf("video", "y")>>) :
        a \in {Leaf("text", NoUrl), Leaf("image", "x")},
        b \in {Leaf("image", "x"), Leaf("image", "y")},
        c \in {Leaf("image", "x"), Leaf("image", NoUrl)}}

ExtractInputs ==
    [sessions |-> {"u1"}, urls |-> Urls, keys |-> {"k1", "k2"},
     titles |-> {"t"}, contents |-> ExtractDocs, thumbs |-> {NoUrl},
     prices |-> {NoPrice}, journals |-> {Null}]

NextExtract ==
    \/ RecordImage("c1", ExtractInputs)
    \/ PublishConfirm("c1", ExtractInputs)
    \/ Sent("c1", "publish") /\ PublishStart("c1", reqs["c1"].loc)
    \/ PublishLink("c1")
    \/ Throw("c1")

SpecExtract == Init /\ [][NextExtract]_vars

(* The search box: a user types and deletes characters while time passes   *)
(* and responses come back.                                                *)

SearchInputs ==
    [values |-> {NoUrl, "ab", "abc", "abcd", "xyz"},
     results |-> {<<>>, <<"u1">>, <<"u1", "u2">>}]

NextSearch ==
    \/ SearchType(SearchInputs.values)
    \/ SearchWait
    \/ SearchTimeout
    \/ SearchResponse(SearchInputs.results)

SpecSearch == Init /\ [][NextSearch]_vars

(* The write page: an author opens the modal, uploads and removes          *)
(* thumbnails, publishes, closes and opens again.                          *)

ModalInputs ==
    [sessions |-> {"u1"}, keys |-> {"k1", "k2"},
     titles |-> {"t"}, contents |-> {DocText},
     prices |-> {NoPrice}, journals |-> {Null}]

NextModal ==
    \/ handlePublishClick
    \/ handleFileSelect("c1", ModalInputs)
    \/ Sent("c1", "recordImage") /\ RecordImage("c1", reqs["c1"].loc)
    \/ handleFileSaved("c1")
    \/ handleRemoveThumbnail("c1", ModalInputs)
    \/ Sent("c1", "deleteImage") /\ DeleteImageFind("c1", reqs["c1"].loc)
    \/ DeleteImageStorage("c1")
    \/ DeleteImageDb("c1")
    \/ handleThumbnailRemoved("c1")
    \/ handlePublishConfirm("c1", ModalInputs)
    \/ Sent("c1", "publish") /\ PublishStart("c1", reqs["c1"].loc)
    \/ PublishLink("c1")
    \/ handlePublished("c1")
    \/ handleClose
    \/ Throw("c1")

SpecModal == Init /\ [][NextModal]_vars

(* Sessions: on one connection a client sends every state-changing request *)
(* of the API, signed in as user u1 or with no session.                    *)

StateChangingOps ==
    {"publish", "recordImage", "deleteImage", "createJournal",
     "addMember", "removeMember", "changeRole"}

AnonInputs ==
    [ops |-> {"addMember", "removeMember", "changeRole"},
     sessions |-> {"u1", NoUser}, urls |-> {"x"}, keys |-> {"k1"} \cap used,
     titles |-> {"t"}, contents |-> {DocX}, thumbs |-> {NoUrl},
     prices |-> {NoPrice}, journals |-> {Null},
     names |-> {CoolJournal}, journalIds |-> {1}, memberIds |-> {1, 2},
     roles |-> {"WRITER"}, emails |-> {EmailOf["u2"]}]

NextAnon ==
    \/ Upload({"k1"})
    \/ RecordCall("c1", AnonInputs)
    \/ Sent("c1", "recordImage") /\ RecordImage("c1", reqs["c1"].loc)
    \/ DeleteCall("c1", AnonInputs)
    \/ Sent("c1", "deleteImage") /\ DeleteImageFind("c1", reqs["c1"].loc)
    \/ DeleteImageStorage("c1")
    \/ DeleteImageDb("c1")
    \/ PublishConfirm("c1", AnonInputs)
    \/ Sent("c1", "publish") /\ PublishStart("c1", reqs["c1"].loc)
    \/ PublishLink("c1")
    \/ JournalCall("c1", AnonInputs)
    \/ Sent("c1", "createJournal") /\ JournalFind("c1", reqs["c1"].loc)
    \/ JournalCreate("c1")
    \/ MembersCall("c1", AnonInputs)
    \/ Sent("c1", "addMember") /\ AddMemberCheck("c1", reqs["c1"].loc)
    \/ AddMemberExisting("c1")
    \/ AddMemberCreate("c1")
    \/ Sent("c1", "removeMember") /\ RemoveMemberCheck("c1", reqs["c1"].loc)
    \/ RemoveMemberDelete("c1")
    \/ Sent("c1", "changeRole") /\ ChangeRoleCheck("c1", reqs["c1"].loc)
    \/ ChangeRoleUpdate("c1")
    \/ ChangeRoleCount("c1")
    \/ ChangeRoleCascade("c1")
    \/ Throw("c1")

SpecAnon == Init /\ [][NextAnon]_vars

(* The cleanup trigger: requests with one header or another reach          *)
(* deployments with and without a configured secret, while a client        *)
(* records uploads.                                                        *)

CronInputs ==
    [SweepInputs EXCEPT !.headers = {"Bearer s", "Bearer undefined", "s", NoUrl},
                        !.secrets = {CronSecret, Unset},
                        !.envs = {"production", "development"},
                        !.keys = {"k1"} \cap used]

NextCron ==
    \/ Tick
    \/ Upload({"k1"})
    \/ RecordImage("c1", CronInputs)
    \/ CronCall("cron", CronInputs)
    \/ Sent("cron", "sweep") /\ SweepFind("cron", reqs["cron"].loc)
    \/ SweepStorage("cron")
    \/ SweepDb("cron")
    \/ \E p \in {"c1", "cron"} : Throw(p)

SpecCron == Init /\ [][NextCron]_vars

----------------------------------------------------------------------------
(* Helpers of the properties *)

AdminCountIn(ms, journalId) ==
    Cardinality({m \in ms : m.journalId = journalId /\ m.role = "ADMIN"})

(* The image srcs of a content tree, as a set *)
RECURSIVE ImageSrcs(_)
ImageSrcs(n) ==
    (IF n.type = "image" /\ n.src # NoUrl THEN {n.src} ELSE {})
        \cup UNION {ImageSrcs(n.content[k]) : k \in DOMAIN n.content}

(* The URL set of an article: the image srcs of its content and its thumbnail *)
UrlSet(a) == ImageSrcs(a.content) \cup ({a.thumbnailUrl} \ {NoUrl})

(* Request p, in flight with operation o, takes a step *)
Steps(p, o) == reqs[p].op = o /\ reqs'[p] # reqs[p]

(* Request p, in flight, answers in this step *)
Answers(p) == reqs[p].pc # "done" /\ reqs'[p].pc = "done"

----------------------------------------------------------------------------
(* C1: in every reachable state every journal that exists has at least one *)
(* member with role ADMIN.                                                 *)
C1_EveryJournalHasAdmin ==
    \A j \in journals : AdminCount(j.id) >= 1

(* C2: no step of a request other than Change role takes the last ADMIN    *)
(* from a journal that stays in existence, and a Remove member request     *)
(* naming the caller's own membership is refused and removes nothing.      *)
C2_OnlyChangeRoleDropsLastAdmin ==
    [][/\ \A p \in Procs :
            (reqs[p].op \notin {"none", "changeRole"} /\ reqs'[p] # reqs[p]) =>
                \A j \in journals \cap journals' :
                    AdminCountIn(members, j.id) >= 1 => AdminCountIn(members', j.id) >= 1
       /\ (resp' # resp /\ resp' = Response("removeMember", 400, [error |-> "self"])) =>
                members' = members]_vars

(* C3: a sweep deletes image records only after the storage has reported   *)
(* the whole batch deleted; on a partial or total failure it deletes none. *)
C3_FailedBatchDeletesNoRecords ==
    [][\A p \in Procs :
          (Steps(p, "sweep") /\ images' # images) =>
              /\ reqs[p].pc = "sw_db"
              /\ reqs[p].loc.deleteResult.success
              /\ reqs[p].loc.deleteResult.deletedCount = Cardinality(reqs[p].loc.batch)]_vars

(* C3 witness: 2 of the 3 storage deletions of a batch failed, the sweep   *)
(* has answered and the 3 records are still there.                         *)
C3_Witness ==
    /\ resp = Response("sweep", 200, SweepBody("partial", 0, 3))
    /\ Cardinality(OrphanImages(now)) = 3
    /\ Cardinality({i \in OrphanImages(now) : i.key \in storage}) = 2

(* C4: what a step of the sweep deletes, the record of an image or its     *)
(* stored file, belongs to an image that is orphan at that step.           *)
C4_SweepDeletesOnlyOrphans ==
    [][\A p \in Procs : Steps(p, "sweep") =>
          \A i \in images :
              (i \notin images' \/ (i.key \in storage /\ i.key \notin storage')) =>
                  i.articleId = Null]_vars

(* C5: in the state in which a new article first exists, every image of    *)
(* its author whose URL the article references is linked.                  *)
C5_PublishAtomic ==
    [][\A a \in articles' \ articles : \A i \in images' :
          (i.userId = a.userId /\ i.url \in UrlSet(a)) => i.articleId # Null]_vars

(* C6: a publish, Create Journal or Change role request that answers with  *)
(* an error has changed nothing in the store.                              *)
C6_ErrorPersistsNothing ==
    [][\A p \in Procs :
          (Answers(p) /\ resp'.status >= 400
             /\ reqs[p].op \in {"publish", "createJournal", "changeRole"}) =>
                 ~ reqs[p].wrote]_vars

(* C7: when a Change role request answers with success and the journal J  *)
(* of the membership it updated is left with zero ADMIN members, J is      *)
(* gone, no membership references J, the articles of J are kept with       *)
(* journalId null, no article is deleted, and the answering step leaves    *)
(* the memberships and articles of the other journals as they were.        *)
C7_CascadeOnZeroAdmins ==
    [][\A p \in Procs :
          (Answers(p) /\ reqs[p].op = "changeRole" /\ resp'.status = 200) =>
              LET J == reqs[p].loc.updated.journalId IN
              AdminCountIn(members', J) = 0 =>
                  /\ \A j \in journals' : j.id # J
                  /\ \A m \in members' : m.journalId # J
                  /\ \A a \in articles : a.journalId = J =>
                        [a EXCEPT !.journalId = Null] \in articles'
                  /\ {a.id : a \in articles'} = {a.id : a \in articles}
                  /\ \A j \in journals' :
                        /\ {m \in members' : m.journalId = j.id}
                              = {m \in members : m.journalId = j.id}
                        /\ {a \in articles' : a.journalId = j.id}
                              = {a \in articles : a.journalId = j.id}]_vars

(* C8: the link step of a publish by user U changes only images owned by   *)
(* U, orphan, with a url in the article's URL set, and all it changes on   *)
(* them is articleId, set to the new article; a successful link step       *)
(* changes every such image.                                               *)
C8_LinkTouchesOnlyMatchingOrphans ==
    [][\A p \in Procs : (Steps(p, "publish") /\ reqs[p].pc = "pub_link") =>
          LET l == reqs[p].loc
              a == CHOOSE x \in articles : x.id = l.article
              matches(i) == i.userId = a.userId /\ i.articleId = Null /\ i.url \in UrlSet(a)
          IN  /\ a.userId = l.user
              /\ \A i \in images :
                    \/ i \in images'
                    \/ matches(i) /\ [i EXCEPT !.articleId = a.id] \in images'
              /\ Cardinality(images') = Cardinality(images)
              /\ resp'.status = 200 => \A i \in images : matches(i) => i \notin images']_vars

(* C8 witness: images A and B of one owner with the same url, B linked by  *)
(* an earlier publish, A linked by a later one.                            *)
C8_Witness ==
    /\ resp = Response("publish", 200, <<>>)
    /\ \E i1 \in images, i2 \in images :
          /\ i1.url = i2.url /\ i1.userId = i2.userId
          /\ i1.articleId = 1 /\ i2.articleId = 2
          /\ \A a \in articles : a.userId = i1.userId /\ i1.url \in UrlSet(a)

(* C9: a linked image is never deleted and never re-linked: every image    *)
(* with a non-null articleId is the same in the next state.                *)
C9_LinkedImageIsStable ==
    [][\A i \in images : i.articleId # Null => i \in images']_vars

(* C10: when a step of deleteOwned removes an image record, the file of    *)
(* that image is no longer in the storage.                                 *)
C10_RecordRemovedAfterFile ==
    [][\A p \in Procs : Steps(p, "deleteImage") =>
          \A i \in images \ images' : i.key \notin storage']_vars

(* C11: the sweep selects an image iff it is orphan and was created        *)
(* strictly more than the retention window before the sweep's current      *)
(* time: a linked image is never selected, nor an orphan exactly that old  *)
(* or younger.                                                             *)
C11_SweepSelectsOldOrphans ==
    [][LET eligible == {i.id : i \in {x \in images :
                          x.articleId = Null /\ now - x.createdAt > RetentionWindow}}
       IN  /\ \A p \in Procs :
                (reqs[p].pc = "done" /\ reqs'[p].pc = "sw_storage") =>
                    /\ {b.id : b \in reqs'[p].loc.batch} = eligible
                    /\ \A b \in reqs'[p].loc.batch :
                          \E i \in images : i.id = b.id /\ i.key = b.key
           /\ (resp' # resp /\ resp' = Response("sweep", 200, SweepBody("nothing", 0, 0)))
                    => eligible = {}]_vars

(* C11 witness: a sweep has selected one image while a linked image of     *)
(* the same age and an orphan exactly one retention window old are left    *)
(* out.                                                                    *)
C11_Witness ==
    /\ reqs["cron"].pc = "sw_storage"
    /\ Cardinality(reqs["cron"].loc.batch) = 1
    /\ \E i \in images, j \in images, k \in images :
          /\ i.id \in {b.id : b \in reqs["cron"].loc.batch}
          /\ i.articleId = Null /\ now - i.createdAt > RetentionWindow
          /\ j.articleId # Null /\ j.createdAt = i.createdAt
          /\ k.articleId = Null /\ now - k.createdAt = RetentionWindow

C14_NonAdminForbidden ==
    [][\A p \in Procs :
          (reqs[p].pc = "sent" /\ reqs[p].op \in MemberOps /\ reqs'[p] # reqs[p]
              /\ ~ (Answers(p) /\ resp'.status = 500)) =>
              LET u == CHOOSE x \in reqs[p].loc.sessions : TRUE
                  j == CHOOSE x \in reqs[p].loc.journalIds : TRUE
              IN  IF \E m \in members : m.userId = u /\ m.journalId = j /\ m.role = "ADMIN"
                  THEN ~ (Answers(p) /\ resp'.status = 403)
                  ELSE /\ Answers(p) /\ resp'.status = 403 /\ resp'.op = reqs[p].op
                       /\ journals' = journals /\ members' = members
                       /\ articles' = articles]_vars

(* C14 witness: user u2, a WRITER of journal 1, has been refused a Remove  *)
(* member request and has a Change role request on its way.                *)
C14_Witness ==
    /\ \E m \in members : m.userId = "u2" /\ m.journalId = 1 /\ m.role = "WRITER"
    /\ resp = Response("removeMember", 403, <<>>)
    /\ Sent("c2", "changeRole") /\ reqs["c2"].loc.sessions = {"u2"}

(* C15: the step that creates a journal creates, for it, exactly one       *)
(* membership, that of the creator with role ADMIN, and nothing else: the  *)
(* journal is in no state without that membership, and in the state in     *)
(* which it first exists it has no other member.                           *)
C15_JournalCreatedWithItsAdmin ==
    [][\A j \in journals' \ journals :
          /\ journals \subseteq journals' /\ members \subseteq members'
          /\ Cardinality(journals') = Cardinality(journals) + 1
          /\ \E p \in Procs :
                /\ reqs[p].pc = "j_create" /\ reqs'[p] = Idle
                /\ \E m \in members' :
                      /\ m.userId = reqs[p].loc.user /\ m.role = "ADMIN"
                      /\ m.journalId = j.id
                      /\ members' \ members = {m}
                      /\ {x \in members' : x.journalId = j.id} = {m}]_vars

(* C15 witness: two journals have been created, each with its creator as   *)
(* its one member, while the other user is at work on the first.           *)
C15_Witness ==
    /\ resp = Response("createJournal", 201, <<>>)
    /\ Cardinality(journals) = 2
    /\ \A j \in journals :
          \E m \in members : {x \in members : x.journalId = j.id} = {m}
                               /\ m.userId = "u1" /\ m.role = "ADMIN"
    /\ reqs["c2"].pc = "sent"

(* C16: there is at most one membership per user and journal.              *)
C16_OneMembershipPerUserAndJournal ==
    \A m1 \in members, m2 \in members :
        (m1.userId = m2.userId /\ m1.journalId = m2.journalId) => m1 = m2

(* C16 witness: two Add member requests for the same user and journal have *)
(* both passed the already-a-member check; one has created the membership  *)
(* and the other is about to create.                                       *)
C16_Witness ==
    /\ reqs["c2"].pc = "add_create"
    /\ resp = Response("addMember", 201, <<>>)
    /\ \E m \in members : /\ m.userId = reqs["c2"].loc.targetUser
                           /\ m.journalId = reqs["c2"].loc.journalId
                           /\ m.role = "WRITER"

(* C17: an Add member request of an ADMIN of journal J is answered 404,    *)
(* changing nothing, when no user has the email; is answered 409, changing *)
(* nothing, when that user is a member of J already; and otherwise creates *)
(* exactly one membership (user, J, WRITER) and changes nothing else.      *)
C17_AddMemberOutcomes ==
    [][\A p \in Procs :
          /\ (Sent(p, "addMember") /\ reqs'[p] # reqs[p]
                 /\ ~ (Answers(p) /\ resp'.status \in {403, 500})) =>
                 LET email == CHOOSE x \in reqs[p].loc.emails : TRUE IN
                 /\ members' = members
                 /\ IF \E t \in Users : EmailOf[t] = email
                    THEN reqs'[p].pc = "add_existing" /\ EmailOf[reqs'[p].loc.targetUser] = email
                    ELSE Answers(p) /\ resp'.status = 404
          /\ (reqs[p].pc \in {"add_existing", "add_create"} /\ reqs'[p] # reqs[p]) =>
                 LET l == reqs[p].loc IN
                 IF \E m \in members : m.userId = l.targetUser /\ m.journalId = l.journalId
                 THEN /\ members' = members
                      /\ reqs[p].pc = "add_create" => (Answers(p) /\ resp'.status = 409)
                      /\ (Answers(p) /\ resp'.status # 500) => resp'.status = 409
                 ELSE \/ reqs[p].pc = "add_existing" /\ reqs'[p].pc = "add_create"
                                /\ members' = members
                      \/ Answers(p) /\ resp'.status = 500 /\ members' = members
                      \/ /\ Answers(p) /\ resp'.status = 201
                         /\ \E m \in members' \ members :
                               /\ m.userId = l.targetUser /\ m.journalId = l.journalId
                               /\ m.role = "WRITER"
                               /\ members' = members \cup {m}
                         /\ journals' = journals /\ articles' = articles]_vars

(* C18: no two journals have the same slug, and a Create Journal request   *)
(* always creates with a slug no existing journal has, so that it          *)
(* succeeds, also when another journal of the same name exists or is being *)
(* created at the same time.                                               *)
C18_DistinctSlugs ==
    /\ \A j1 \in journals, j2 \in journals : j1.slug = j2.slug => j1 = j2
    /\ \A p \in Procs :
          reqs[p].pc = "j_create" => \A j \in journals : j.slug # reqs[p].loc.slug

C20_OnePurchasePerUserAndArticle ==
    [][/\ \A x \in purchases', y \in purchases' :
            (x.userId = y.userId /\ x.articleId = y.articleId) => x = y
       /\ purchases \subseteq purchases'
       /\ \A p \in Procs :
            (Sent(p, "purchase") /\ Answers(p)) =>
                LET u == CHOOSE x \in reqs[p].loc.sessions : TRUE
                    articleId == CHOOSE x \in reqs[p].loc.articleIds : TRUE
                    amount == CHOOSE x \in reqs[p].loc.amounts : TRUE
                IN  IF \E x \in purchases : x.userId = u /\ x.articleId = articleId
                    THEN resp'.status \in {409, 500} /\ purchases' = purchases
                    ELSE \/ resp'.status = 500 /\ purchases' = purchases
                         \/ /\ resp'.status = 201
                            /\ \E x \in purchases' \ purchases :
                                  /\ x.userId = u /\ x.articleId = articleId
                                  /\ x.amountPaid = amount
                                  /\ purchases' = purchases \cup {x}]_vars

(* C20 witness: a purchase at amount 3 is recorded and a second request    *)
(* for the same user and article, at amount 5, is about to be refused.     *)
C20_Witness ==
    /\ Sent("c2", "purchase") /\ reqs["c2"].loc.amounts = {5}
    /\ \E x \in purchases :
          /\ x.amountPaid = 3
          /\ reqs["c2"].loc.sessions = {x.userId}
          /\ reqs["c2"].loc.articleIds = {x.articleId}
    /\ resp = Response("purchase", 409, <<>>)

(* C21: the cleanup route runs the sweep only for a request whose          *)
(* authorization header is exactly "Bearer " followed by the configured    *)
(* secret; every other request is answered 401 and changes neither the     *)
(* storage nor the database.                                               *)
C21_SweepNeedsTheSecret ==
    [][\A p \in Procs :
          (Sent(p, "sweep") /\ reqs'[p] # reqs[p]
              /\ ~ (Answers(p) /\ resp'.status = 500)) =>
              LET h == CHOOSE x \in reqs[p].loc.headers : TRUE
                  secret == CHOOSE x \in reqs[p].loc.secrets : TRUE
              IN  IF secret \notin {Unset, NoUrl} /\ h = "Bearer " \o secret
                  THEN ~ (Answers(p) /\ resp'.status = 401)
                  ELSE /\ Answers(p) /\ resp'.status = 401
                       /\ images' = images /\ storage' = storage]_vars

(* C22: deleteOwned answers NotFound (404) when no Image has the given     *)
(* key and Forbidden (403) when the Image belongs to another user; in both *)
(* cases no file and no record is deleted.                                 *)
C22_DeleteRefusals ==
    [][\A p \in Procs :
          (Sent(p, "deleteImage") /\ reqs'[p] # reqs[p]
              /\ ~ (Answers(p) /\ resp'.status = 500)) =>
              LET u == CHOOSE x \in reqs[p].loc.sessions : TRUE
                  key == CHOOSE x \in reqs[p].loc.keys : TRUE
                  found == {i \in images : i.key = key}
              IN  (u # NoUser /\ key # NoUrl) =>
                    /\ found = {} =>
                          /\ Answers(p) /\ resp'.status = 404
                          /\ images' = images /\ storage' = storage
                    /\ (found # {} /\ \A i \in found : i.userId # u) =>
                          /\ Answers(p) /\ resp'.status = 403
                          /\ images' = images /\ storage' = storage]_vars

C22_Witness ==
    /\ resp.op = "deleteImage" /\ resp.status = 403
    /\ \E i \in images : i.key \in storage

(* C23: no step deletes an Article or changes its title, content,          *)
(* thumbnail, price or author; the only change a step makes to a published *)
(* Article is journalId going from a journal to null, in the cascade step  *)
(* that deletes that journal.                                              *)
C23_PublishedArticleIsFrozen ==
    [][\A a \in articles :
          \/ a \in articles'
          \/ /\ a.journalId # Null
             /\ [a EXCEPT !.journalId = Null] \in articles'
             /\ \E j \in journals : j.id = a.journalId
             /\ ~ \E j \in journals' : j.id = a.journalId
             /\ \E p \in Procs : /\ reqs[p].op = "changeRole"
                                 /\ reqs[p].pc = "role_cascade"
                                 /\ reqs[p].loc.journalId = a.journalId
                                 /\ Answers(p)]_vars

C23_Witness ==
    /\ \E a \in articles : a.journalId = Null
    /\ resp.op = "changeRole" /\ resp.status = 200
    /\ Cardinality(journals) < nextId.journal - 1

(* C24: the render of every finite content tree, with nodes of unknown     *)
(* type, nodes without attrs, text nodes without text, marks of unknown    *)
(* type and nodes with an empty child list, comes to its end and throws    *)
(* no error.                                                               *)
C24_RenderTerminates ==
    /\ \A p \in Procs : Sent(p, "render") ~> (reqs[p].pc = "done" /\ resp.op = "render")
    /\ [](resp.op = "render" => resp.status = 200)

C24_Witness ==
    /\ resp.op = "render" /\ resp.status = 200
    /\ resp.body.body = renderNode(OddDoc)
    /\ NullEl \in Range(resp.body.body.kids)

(* the tags from the outermost element down to the string, and the string *)
RECURSIVE TagsDown(_)
TagsDown(el) == IF el.tag = "#text" THEN <<>> ELSE <<el.tag>> \o TagsDown(el.kids[1])
RECURSIVE Innermost(_)
Innermost(el) == IF el.tag = "#text" THEN el ELSE Innermost(el.kids[1])
IsKnownMark(mark) == mark.type \in DOMAIN MarkTag

(* C25: the render of a text node with marks m1, ..., mn is the text       *)
(* wrapped once per known mark, the wrapper of m1 outermost and that of mn *)
(* innermost, in the order of the marks.                                   *)
C25_MarksNestInOrder ==
    [][\A p \in Procs :
          (Answers(p) /\ reqs[p].op = "render" /\ reqs[p].loc.tree.type = "text") =>
              LET node == reqs[p].loc.tree
                  marks == IF node.marks = {} THEN <<>> ELSE The(node.marks)
                  known == SelectSeq(marks, IsKnownMark)
                  out == resp'.body.body.kids[1]
              IN  /\ resp'.status = 200
                  /\ TagsDown(out) = [i \in DOMAIN known |-> MarkTag[known[i].type]]
                  /\ Innermost(out) = Txt(IF node.text = {} THEN NoUrl ELSE The(node.text))]_vars

C25_Witness ==
    /\ resp.op = "render" /\ resp.status = 200
    /\ resp.body.body = El("Fragment", <<El("strong", <<El("a", <<El("em", <<Txt("a")>>)>>)>>)>>)

(* the number of image nodes of a content tree whose src is url, and the   *)
(* number of places of a list that hold url                                *)
RECURSIVE ImageNodeCount(_, _)
RECURSIVE ImageNodeCountAll(_, _)
ImageNodeCount(n, url) ==
    (IF n.type = "image" /\ n.src = url THEN 1 ELSE 0) + ImageNodeCountAll(n.content, url)
ImageNodeCountAll(kids, url) ==
    IF kids = <<>> THEN 0
    ELSE ImageNodeCount(Head(kids), url) + ImageNodeCountAll(Tail(kids), url)
Occurrences(list, url) == Cardinality({k \in DOMAIN list : list[k] = url})

(* C26, as stated: the urls that the link step of a publish extracts from  *)
(* the content are exactly the srcs of its image nodes, each of them once. *)
C26_ExtractReturnsEachSrcOnce ==
    [][\A p \in Procs : (Steps(p, "publish") /\ reqs[p].pc = "pub_link") =>
          LET urls == extractImageUrls(reqs[p].loc.content) IN
          /\ Range(urls) = ImageSrcs(reqs[p].loc.content)
          /\ \A url \in Range(urls) : Occurrences(urls, url) = 1]_vars

(* C26, amended: the urls that the link step of a publish extracts from    *)
(* the content are exactly the non-empty srcs of its image nodes, each of  *)
(* them once for every image node that has it.                             *)
C26_ExtractReturnsEachSrcPerNode ==
    [][\A p \in Procs : (Steps(p, "publish") /\ reqs[p].pc = "pub_link") =>
          LET urls == extractImageUrls(reqs[p].loc.content) IN
          /\ Range(urls) = ImageSrcs(reqs[p].loc.content)
          /\ \A url \in Urls :
                Occurrences(urls, url) = ImageNodeCount(reqs[p].loc.content, url)]_vars

C26_Witness ==
    /\ resp.op = "publish" /\ resp.status = 200
    /\ \E a \in articles :
         /\ a.id = nextId.article - 1
         /\ Occurrences(extractImageUrls(a.content), "x") = 3
         /\ \E i \in images : i.articleId = a.id /\ i.url = "x"

(* C27: the delete step of Remove member and the update step of Change     *)
(* role, called with journalId J, remove or change only memberships of J.  *)
C27_MemberStepsStayInJournal ==
    [][\A p \in Procs :
          (reqs'[p] # reqs[p]
              /\ \/ reqs[p].op = "removeMember" /\ reqs[p].pc = "rm_delete"
                 \/ reqs[p].op = "changeRole" /\ reqs[p].pc = "role_update") =>
              \A m \in members \ members' : m.journalId = reqs[p].loc.journalId]_vars

(* C30: the search box sends a request only for an input of at least 3     *)
(* characters that has not changed for 200 ms, and a response that is      *)
(* taken up was issued for the input as it now is, never for an earlier    *)
(* value of the input.                                                     *)
C30_DebouncedAndNeverStale ==
    [][LET s == ui.search
           t == ui'.search
       IN  /\ \A f \in t.fetches \ s.fetches :
                /\ Len(s.searchFor) >= 3
                /\ s.elapsed >= 200
                /\ t.searchFor = s.searchFor
                /\ f.name = s.searchFor
           /\ \A f \in s.fetches \ t.fetches :
                (t.effect = s.effect /\ t.users # s.users) => f.effect = s.effect]_vars

C30_Witness ==
    /\ ui.search.users = <<"u1", "u2">>
    /\ ui.search.searchFor = "abcd"
    /\ ui.search.effect = MaxEffects

(* C29: every DELETE /api/images that the remove-thumbnail action of the   *)
(* publish modal sends names an image that is an orphan: never an image    *)
(* linked to a published article.                                          *)
C29_ModalDeletesOnlyOrphans ==
    [][\A p \in Procs :
          (reqs'[p] # reqs[p] /\ reqs'[p].op = "deleteImage" /\ reqs'[p].pc = "sent") =>
              \A i \in images :
                  i.key \in reqs'[p].loc.keys => i.articleId = Null]_vars

(* C28: a publish, record image, delete image, create journal, add member, *)
(* remove member or change role request sent without a session is answered *)
(* 401 and changes neither the database nor the storage.                   *)
C28_NoSessionNoChange ==
    [][\A p \in Procs :
          (reqs[p].pc = "sent" /\ reqs[p].op \in StateChangingOps /\ reqs'[p] # reqs[p]
              /\ reqs[p].loc.sessions = {NoUser}
              /\ ~ (Answers(p) /\ resp'.status = 500)) =>
              /\ Answers(p)
              /\ resp' = Response(reqs[p].op, 401, <<>>)
              /\ UNCHANGED <<journals, members, articles, images, purchases, storage>>]_vars

C28_Witness ==
    /\ resp = Response("changeRole", 401, <<>>)
    /\ members # {} /\ images # {} /\ articles # {} /\ storage # {}

====
